---- MODULE Spec2Model ----
(***************************************************************************)
(* The Agon SDK request lifecycle: the merchant-side interceptors          *)
(* (withAgon, agonProxy, agonMiddleware, agonPlugin over AgonPlatformCore) *)
(* and the consumer-side orchestrator (AgonClient.fetch), each driving the *)
(* Agon backend through its HTTP transport.                                *)
(***************************************************************************)
EXTENDS Integers, Sequences, FiniteSets, TLC

\* ------------------------------------------------------------------ bounds
NumReq == 2       \* inbound request slots of the interceptors
NumSolo == 1      \* requests / fetch calls in the runs that draw every input
NumCalls == 2     \* AgonClient.fetch call slots
MaxClock == 1     \* Date.now() readings range over 0..MaxClock
RandSpace == 2    \* Math.random() suffixes range over 1..RandSpace
MaxEnd == 2       \* res.end invocations per Express request

\* ------------------------------------------------------- values and names
Undef == "<undefined>"          \* JS undefined / null / an absent JSON field
Unparseable == "<not json>"     \* a response body res.json() cannot parse

Req == 1..NumReq
Call == 1..NumCalls
Tokens == {"tok1", "tok2"}
ApiKeys == {"ak_live_1", "ak_stale_2"}
Entry == {"withAgon", "agonProxy", "agonMiddleware", "agonPlugin"}

\* AGON_HEADERS and the two override header names
CONSUMER_KEY == "X-AGON-KEY"
CONSUMER_TOKEN == "X-AGON-TOKEN"
PAYMENT_REQUIRED == "PAYMENT-REQUIRED"
OVERRIDE_SIG == "X-AGON-OVERRIDE-SIG"
OVERRIDE_MSG == "X-AGON-OVERRIDE-MSG"

\* String.prototype.toLowerCase over the header names that occur
toLowerCase(n) ==
  CASE n = "X-AGON-KEY" -> "x-agon-key"
    [] n = "X-AGON-TOKEN" -> "x-agon-token"
    [] n = "X-Agon-Token" -> "x-agon-token"
    [] n = "PAYMENT-REQUIRED" -> "payment-required"
    [] n = "X-AGON-OVERRIDE-SIG" -> "x-agon-override-sig"
    [] n = "X-AGON-OVERRIDE-MSG" -> "x-agon-override-msg"
    [] n = "Accept" -> "accept"
    [] OTHER -> n

\* obj[key] on a plain record of headers
Get(h, k) == IF k \in DOMAIN h THEN h[k] ELSE Undef

\* JS truthiness of a string | undefined
Truthy(v) == v # Undef /\ v # ""

\* a ?? b
Coalesce(a, b) == IF a # Undef THEN a ELSE b

\* The header record a framework hands to the interceptor: Headers.forEach
\* (Fetch API) and Node's req.headers both yield lower-cased names.
HeaderObj(wire) ==
  [k \in {toLowerCase(n) : n \in DOMAIN wire} |->
     LET n == CHOOSE m \in DOMAIN wire : toLowerCase(m) = k IN wire[n]]

NoHeaders == [k \in {} |-> ""]
OneHeader(k, v) == [x \in {k} |-> v]

\* ------------------------------------------------------------- JSON bodies
\* One record shape for every JSON body. An absent string field is Undef, an
\* absent object field is NoObj (also the empty object {}), an absent
\* reservation_id is NoRes, an absent amount is NoAmount.
NoObj == [k \in {} |-> ""]
NoRes == 0
NoAmount == -1
Json ==
  [error |-> Undef, message |-> Undef, details |-> NoObj, payment_info |-> NoObj,
   denial_reason |-> Undef, status |-> Undef, reservation_id |-> NoRes,
   amount |-> NoAmount, reason |-> Undef, token |-> Undef, upstream |-> 0,
   api_key |-> Undef, account_id |-> Undef, deposit_address |-> Undef]

\* ------------------------------------------------------------- AgonError
AgonError(statusCode, body) ==
  [statusCode |-> statusCode, code |-> body.error, message |-> body.message,
   details |-> body.details]

toJSON(err) ==
  [Json EXCEPT !.error = err.code, !.message = err.message, !.details = err.details]

isSpendingLimitExceeded(err) == err.code = "spending_limit_exceeded"

\* isOverrideAvailable that only asks whether details.override_available is there
isOverrideAvailable_Present(err) ==
  /\ err.code = "spending_limit_exceeded"
  /\ "override_available" \in DOMAIN err.details

isOverrideAvailable(err) ==
  /\ err.code = "spending_limit_exceeded"
  /\ "override_available" \in DOMAIN err.details
  /\ err.details.override_available = TRUE

getOverrideSignMessage(err) ==
  IF ~isOverrideAvailable(err) THEN Undef ELSE Get(err.details, "sign_message")


\* ------------------------------------------------------------------ prices
\* A price literal. A string is what parseFloat reads from it: nan, or a
\* number kept as x10 = ten times its value in the unit Math.round rounds to
\* (for a "$" string: dollars * 10^7, for a plain string or a number: units * 10),
\* so that rounding is computed, not assumed.
StrPrice(dollar, nan, x10) == [kind |-> "string", dollar |-> dollar, nan |-> nan, x10 |-> x10]
NumPrice(x10) == [kind |-> "number", dollar |-> FALSE, nan |-> FALSE, x10 |-> x10]
BigPrice(v) == [kind |-> "bigint", dollar |-> FALSE, nan |-> FALSE, x10 |-> v * 10]
FnPricing == [kind |-> "function", dollar |-> FALSE, nan |-> FALSE, x10 |-> 0]

Threw == [ok |-> FALSE, value |-> NoAmount]
Returned(v) == [ok |-> TRUE, value |-> v]

\* Math.round: the nearest integer, halves rounded up
MathRound(x10) == (x10 + 5) \div 10

\* BigInt(number): a RangeError unless the number is an integer
BigIntOf(p) == IF p.nan \/ p.x10 % 10 # 0 THEN Threw ELSE Returned(p.x10 \div 10)

\* parsePrice that reads an unreadable string as zero
parsePrice_ZeroOnNaN(price) ==
  IF price.kind = "bigint" THEN Returned(price.x10 \div 10)
  ELSE IF price.kind = "number" THEN BigIntOf(price)
  ELSE IF price.nan THEN Returned(0) ELSE Returned(MathRound(price.x10))

parsePrice(price) ==
  IF price.kind = "bigint" THEN Returned(price.x10 \div 10)
  ELSE IF price.kind = "number" THEN BigIntOf(price)
  ELSE IF price.dollar
       THEN IF price.nan \/ price.x10 < 0 THEN Threw ELSE Returned(MathRound(price.x10))
       ELSE IF price.nan THEN Threw ELSE Returned(MathRound(price.x10))

\* calculatePrice: fnResult is what the pricing function did when called
\* (Threw, or the number / bigint it returned); unused for a static price.
calculatePrice(pricing, fnResult) ==
  IF pricing.kind = "function"
  THEN IF fnResult.kind = "throw" THEN Threw
       ELSE IF fnResult.kind = "bigint" THEN Returned(fnResult.x10 \div 10)
       ELSE BigIntOf(fnResult)
  ELSE parsePrice(pricing)

FnThrow == [kind |-> "throw", dollar |-> FALSE, nan |-> FALSE, x10 |-> 0]

\* --------------------------------------------------------- AgonPlatformCore
extractConsumerToken(headers) ==
  LET token == Coalesce(Get(headers, toLowerCase(CONSUMER_TOKEN)), Get(headers, CONSUMER_TOKEN))
  IN IF ~Truthy(token) THEN Undef ELSE token

\* extractOverride that asks for the signature header alone
extractOverride_SigOnly(headers) ==
  LET sig == Coalesce(Get(headers, "x-agon-override-sig"), Get(headers, "X-AGON-OVERRIDE-SIG"))
      msg == Coalesce(Get(headers, "x-agon-override-msg"), Get(headers, "X-AGON-OVERRIDE-MSG"))
  IN IF ~Truthy(sig) THEN NoObj
     ELSE [signature |-> sig, message |-> msg]

extractOverride(headers) ==
  LET sig == Coalesce(Get(headers, "x-agon-override-sig"), Get(headers, "X-AGON-OVERRIDE-SIG"))
      msg == Coalesce(Get(headers, "x-agon-override-msg"), Get(headers, "X-AGON-OVERRIDE-MSG"))
  IN IF ~Truthy(sig) \/ ~Truthy(msg) THEN NoObj
     ELSE [signature |-> sig, message |-> msg]

buildPaymentRequiredResponse(price, description, mimeType) ==
  [status |-> 402,
   body |-> [Json EXCEPT
     !.error = "payment_required",
     !.message = "This resource requires payment via Agon",
     !.payment_info =
       [price |-> price, currency |-> "USDC",
        description |-> Coalesce(description, "Protected resource"),
        mime_type |-> mimeType,
        instructions |-> "Include your Agon auth token as the X-AGON-TOKEN header",
        register_url |-> "/account/register"]]]

\* generateRequestId: req_<Date.now()>_<random>
generateRequestId(now, rnd) == [pfx |-> "req", ts |-> now, rnd |-> rnd]


\* ------------------------------------------------------------ the backend
\* The Agon ledger: tokens are single-use, request_id is an idempotency key,
\* a reservation leaves "reserved" at most once. What the ledger decides about
\* balance and limits is its own business (decision).
BackendDecisions ==
  {"approve", "insufficient_balance", "spending_limit_denied",
   "spending_limit_error", "server_error"}

Challenge == "agon:override:acct1:req1:2000000:merchant.com:1690000000"

BackendInit ==
  [keys |-> {"ak_live_1"},
   tokens |-> [t \in Tokens |-> "unissued"],
   res |-> <<>>,
   charges |-> <<>>]

HttpReply(status, body) == [status |-> status, body |-> body]

Denied(reason, amount) ==
  HttpReply(200, [Json EXCEPT !.status = "denied", !.amount = amount, !.reason = reason])

Approved(id, amount) ==
  HttpReply(200, [Json EXCEPT !.status = "approved", !.reservation_id = id, !.amount = amount])

ErrorReply(status, code, details) ==
  HttpReply(status, [Json EXCEPT !.error = code, !.message = code, !.details = details])

\* the consumer endpoints want a live API key in X-AGON-KEY
InvalidKey == ErrorReply(401, "invalid_api_key", NoObj)

\* POST /account/create-token
BackendCreateToken(b, headers) ==
  IF Get(headers, CONSUMER_KEY) \notin b.keys
  THEN [bk |-> b, reply |-> InvalidKey]
  ELSE IF \E t \in Tokens : b.tokens[t] = "unissued"
  THEN LET t == CHOOSE x \in Tokens : b.tokens[x] = "unissued"
       IN [bk |-> [b EXCEPT !.tokens[t] = "valid"],
           reply |-> HttpReply(200, [Json EXCEPT !.token = t])]
  ELSE [bk |-> b, reply |-> ErrorReply(429, "rate_limited", NoObj)]

\* POST /account/register: the account's API key is shown once
BackendRegister(b) ==
  [bk |-> [b EXCEPT !.keys = @ \cup {"ak_live_1"}],
   reply |-> HttpReply(200, [Json EXCEPT !.api_key = "ak_live_1", !.account_id = "acct1",
                                         !.deposit_address = "dep1"])]

\* POST /authorize
BackendAuthorize(b, body, decision) ==
  LET same == {i \in 1..Len(b.res) : b.res[i].request_id = body.request_id}
      tok == body.consumer_token
  IN IF same # {}
     THEN LET i == CHOOSE x \in same : TRUE
          IN [bk |-> b,
              reply |-> IF b.res[i].status = "reserved"
                        THEN Approved(i, b.res[i].amount)
                        ELSE Denied("duplicate_request", body.amount)]
     ELSE IF tok \notin Tokens \/ b.tokens[tok] = "unissued"
     THEN [bk |-> b, reply |-> Denied("invalid_consumer_token", body.amount)]
     ELSE IF b.tokens[tok] = "used"
     THEN [bk |-> b, reply |-> Denied("token_already_used", body.amount)]
     ELSE CASE decision = "approve" ->
                 [bk |-> [b EXCEPT
                            !.tokens[tok] = "used",
                            !.res = Append(@, [request_id |-> body.request_id,
                                               token |-> tok,
                                               amount |-> body.amount,
                                               status |-> "reserved"])],
                  reply |-> Approved(Len(b.res) + 1, body.amount)]
            [] decision = "insufficient_balance" ->
                 [bk |-> b, reply |-> Denied("insufficient_balance", body.amount)]
            [] decision = "spending_limit_denied" ->
                 [bk |-> b, reply |-> Denied("spending_limit_exceeded", body.amount)]
            [] decision = "spending_limit_error" ->
                 [bk |-> b,
                  reply |-> ErrorReply(402, "spending_limit_exceeded",
                              [limit_type |-> "max_per_request",
                               requested |-> body.amount, limit |-> 0,
                               override_available |-> TRUE,
                               sign_message |-> Challenge])]
            [] OTHER ->
                 [bk |-> b, reply |-> HttpReply(500, Json)]

ProxyDecisions == {"approve", "approve_upstream_fails", "spending_limit_error", "server_error"}

\* POST /proxy: request_id is the idempotency key of the charge
BackendProxy(b, headers, body, decision) ==
  IF Get(headers, CONSUMER_KEY) \notin b.keys
  THEN [bk |-> b, reply |-> InvalidKey]
  ELSE IF \E i \in 1..Len(b.charges) : b.charges[i].request_id = body.request_id
  THEN LET i == CHOOSE x \in 1..Len(b.charges) : b.charges[x].request_id = body.request_id
       IN [bk |-> b, reply |-> HttpReply(200, [Json EXCEPT !.upstream = b.charges[i].upstream])]
  ELSE CASE decision \in {"approve", "approve_upstream_fails"} ->
              LET upstream == IF decision = "approve" THEN 200 ELSE 500
              IN [bk |-> [b EXCEPT !.charges = Append(@, [request_id |-> body.request_id,
                                                          headers |-> body.headers,
                                                          upstream |-> upstream])],
                  reply |-> HttpReply(200, [Json EXCEPT !.upstream = upstream])]
         [] decision = "spending_limit_error" /\ body.override = NoObj ->
              [bk |-> b,
               reply |-> ErrorReply(402, "spending_limit_exceeded",
                           [limit_type |-> "daily_spending_limit",
                            requested |-> 1000, limit |-> 0,
                            override_available |-> TRUE,
                            sign_message |-> Challenge])]
         [] decision = "spending_limit_error" ->
              [bk |-> b, reply |-> ErrorReply(403, "spending_override_invalid", NoObj)]
         [] OTHER ->
              [bk |-> b, reply |-> HttpReply(500, Json)]

\* POST /consume and POST /release: a reservation leaves "reserved" once
BackendSettle(b, op, id) ==
  IF id \notin 1..Len(b.res)
  THEN [bk |-> b, reply |-> ErrorReply(404, "reservation_not_found", NoObj)]
  ELSE IF b.res[id].status = "consumed"
  THEN [bk |-> b, reply |-> ErrorReply(409, "reservation_already_consumed", NoObj)]
  ELSE IF b.res[id].status = "released"
  THEN [bk |-> b, reply |-> ErrorReply(409, "reservation_already_released", NoObj)]
  ELSE LET to == IF op = "consume" THEN "consumed" ELSE "released"
       IN [bk |-> [b EXCEPT !.res[id].status = to],
           reply |-> HttpReply(200, [Json EXCEPT !.status = to, !.reservation_id = id,
                                                  !.amount = b.res[id].amount])]

\* --------------------------------------------------- the network, per call
\* What one HTTP exchange with the backend can do: the reply arrives; the
\* client-side timer fires before the backend saw the request, or after it
\* acted on it; the host cannot be reached; the reply body is not JSON.
NetOutcomes == {"reply", "timeout_unseen", "timeout_seen", "unreachable", "garbled"}

Processed(net) == net \in {"reply", "timeout_seen", "garbled"}

\* what fetch() hands the transport
Raw(net, reply) ==
  CASE net = "reply" -> [kind |-> "response", status |-> reply.status, parseable |-> TRUE, body |-> reply.body]
    [] net = "garbled" -> [kind |-> "response", status |-> reply.status, parseable |-> FALSE, body |-> Json]
    [] net \in {"timeout_unseen", "timeout_seen"} -> [kind |-> "abort", status |-> 0, parseable |-> FALSE, body |-> Json]
    [] OTHER -> [kind |-> "neterr", status |-> 0, parseable |-> FALSE, body |-> Json]

ResOk(status) == status >= 200 /\ status <= 299

\* The outcome of a transport call: the parsed body, or the AgonError thrown
Resolved(data) == [ok |-> TRUE, data |-> data, err |-> AgonError(0, Json)]
Rejected(err) == [ok |-> FALSE, data |-> Json, err |-> err]

\* platform AgonHttpClient.post
PlatformPost(raw) ==
  IF raw.kind = "abort"
  THEN Rejected(AgonError(504, [Json EXCEPT !.error = "internal_error",
                                            !.message = "Agon API request timed out"]))
  ELSE IF raw.kind = "neterr" \/ ~raw.parseable
  THEN Rejected(AgonError(502, [Json EXCEPT !.error = "internal_error",
                                            !.message = "Failed to reach Agon API"]))
  ELSE IF ~ResOk(raw.status)
  THEN IF Truthy(raw.body.error)
       THEN Rejected(AgonError(raw.status, raw.body))
       ELSE Rejected(AgonError(raw.status, [Json EXCEPT !.error = "internal_error",
                                                        !.message = "Agon API returned"]))
  ELSE Resolved(raw.body)


\* ------------------------------------------------------------------ state
VARIABLES
  config,     \* the AgonPlatformConfig / AgonRouteConfig the interceptors were built with
  clock,      \* the last Date.now() reading
  bk,         \* the backend ledger
  m,          \* per inbound request: the interceptor's position and locals
  inflight,   \* consume / release calls sent without awaiting (Express, Fastify)
  nreq,       \* how many inbound requests arrive in this run
  cl,         \* the AgonClient instance: its key slots, callback and signer
  fetches,    \* per AgonClient.fetch call: its position and locals
  ncalls      \* how many fetch calls are made in this run

mvars == <<config, clock, bk, m, inflight, nreq>>
cvars == <<cl, fetches, ncalls>>
vars == <<config, clock, bk, m, inflight, nreq, cl, fetches, ncalls>>

\* ------------------------------------------------------- merchant inputs
PlatformConfigs ==
  { [pricing |-> StrPrice(TRUE, FALSE, 10000), description |-> "Premium weather data",
     mimeType |-> "application/json"],                       \* pricing: '$0.001'
    [pricing |-> StrPrice(FALSE, TRUE, 0), description |-> Undef,
     mimeType |-> Undef],                                    \* pricing: 'bogus'
    [pricing |-> FnPricing, description |-> Undef,
     mimeType |-> "application/json"],                       \* pricing: async (req) => ...
    [pricing |-> NumPrice(10000), description |-> Undef,
     mimeType |-> Undef],                                    \* pricing: 1000
    [pricing |-> StrPrice(TRUE, FALSE, 20000000), description |-> Undef,
     mimeType |-> Undef] }                                   \* pricing: '$2'

\* what a pricing function may do with a request
FnResults == {FnThrow, BigPrice(2000), NumPrice(5)}

Merge(f, g) == [k \in DOMAIN f \cup DOMAIN g |-> IF k \in DOMAIN f THEN f[k] ELSE g[k]]

OverridePair == Merge(OneHeader(OVERRIDE_SIG, "sig1"), OneHeader(OVERRIDE_MSG, Challenge))

\* the headers of an inbound request, as sent
InboundWire ==
  { NoHeaders,
    OverridePair,
    OneHeader(CONSUMER_TOKEN, ""),
    OneHeader(CONSUMER_TOKEN, "tok1"),
    OneHeader("X-Agon-Token", "tok2"),
    Merge(OneHeader(CONSUMER_TOKEN, "tok1"), OverridePair),
    Merge(OneHeader(CONSUMER_TOKEN, "tok1"), OneHeader(OVERRIDE_SIG, "sig1")),
    Merge(OneHeader(CONSUMER_TOKEN, "tok1"), OneHeader(OVERRIDE_MSG, Challenge)),
    Merge(OneHeader(CONSUMER_TOKEN, "tok1"),
          Merge(OneHeader(OVERRIDE_SIG, ""), OneHeader(OVERRIDE_MSG, Challenge))) }

\* what the pricing function does when the price is dynamic
FnOutcomes == IF config.pricing.kind = "function" THEN FnResults ELSE {FnThrow}

\* requests are numbered in the order they arrive
Arrives(r) ==
  /\ r <= nreq
  /\ m[r].pc = "idle"
  /\ IF r = 1 THEN TRUE ELSE m[r - 1].pc # "idle"

HandlerStatuses == {200, 302, 402, 500}

NoReqId == [pfx |-> "", ts |-> 0, rnd |-> 0]
NoCall ==
  [op |-> "", consumer_token |-> Undef, request_id |-> NoReqId, amount |-> NoAmount,
   override |-> NoObj, reservation_id |-> NoRes]

NoResp == [kind |-> "none", status |-> 0, body |-> Json]
JsonResp(status, body) == [kind |-> "json", status |-> status, body |-> body]
HandlerResp(status) == [kind |-> "handler", status |-> status, body |-> Json]

\* authResult: the status and reason authorize resolved with, or "threw"
\* authErr: the error authorize threw (err of the catch block)
NoAuth == [status |-> "none", reason |-> Undef]

Idle ==
  [pc |-> "idle", entry |-> "", wire |-> NoHeaders, price |-> Threw,
   authResult |-> NoAuth, authErr |-> AgonError(0, Json),
   resId |-> NoRes, log |-> <<>>, handler |-> "none",
   settled |-> "none", ends |-> 0, resp |-> NoResp]

\* a ledger on which some consumer holds one unused token
BackendWithToken == [BackendInit EXCEPT !.tokens["tok1"] = "valid"]

\* new AgonClient(config)
AgonClientNew(apiKey, onLimitExceeded, wallet, customSigner) ==
  [apiKey |-> apiKey,
   accountId |-> Undef,
   depositAddress |-> Undef,
   http |-> [apiKey |-> apiKey, wallet |-> FALSE],
   onLimitExceeded |-> onLimitExceeded,
   wallet |-> wallet,
   customSigner |-> customSigner]

NoResult == [kind |-> "none", status |-> 0, err |-> AgonError(0, Json)]

\* first: the merchant's answer to the first dispatch; decision: what
\* onLimitExceeded resolved with; api: the public method that was called;
\* the opts of createAuthToken; maxAmount and budget are NoAmount when not given
TokenOpts(hasTtl, ttl) ==
  [hasTtl |-> hasTtl, ttl |-> ttl, maxAmount |-> NoAmount, budget |-> NoAmount]
NoOpts == TokenOpts(FALSE, 0)

\* opts: what createAuthToken was called with
\* timer: the abort timer of a transport call taken one step at a time
\* raw: what fetch() handed the transport for the caller's own backend call
NoFetch ==
  [pc |-> "idle", after |-> {}, init |-> NoHeaders, res |-> 0,
   error |-> AgonError(0, Json), override |-> NoObj, requestId |-> NoReqId,
   log |-> <<>>, result |-> NoResult, api |-> "fetch", decision |-> Undef,
   first |-> [kind |-> "none", status |-> 0, paymentRequired |-> Undef,
              parseable |-> FALSE, body |-> Json],
   raw |-> [kind |-> "none", status |-> 0, parseable |-> FALSE, body |-> Json],
   opts |-> NoOpts, timer |-> "none"]

MInit ==
  /\ config \in PlatformConfigs
  /\ clock = 0
  /\ bk = BackendWithToken
  /\ m = [r \in Req |-> Idle]
  /\ inflight = {}
  /\ nreq = NumSolo
  /\ cl = AgonClientNew(Undef, FALSE, FALSE, FALSE)
  /\ fetches = [k \in Call |-> NoFetch]
  /\ ncalls = 0

\* ---------------------------------------------- AgonPlatformCore calls
\* the body authorize() posts to /authorize
authorize(consumerToken, requestId, amount, override) ==
  [NoCall EXCEPT !.op = "authorize", !.consumer_token = consumerToken,
                 !.request_id = requestId, !.amount = amount,
                 !.override = IF override # NoObj THEN override ELSE NoObj]

consume(reservationId) == [NoCall EXCEPT !.op = "consume", !.reservation_id = reservationId]

release(reservationId) == [NoCall EXCEPT !.op = "release", !.reservation_id = reservationId]

HandlerEvent(what) == [NoCall EXCEPT !.op = what]

PriceFailed ==
  JsonResp(500, [Json EXCEPT !.error = "internal_error", !.message = "Failed to calculate price"])

HandlerError ==
  JsonResp(500, [Json EXCEPT !.error = "internal_error", !.message = "Handler error"])

\* BeforeAuthorize without the guard on a missing token
BeforeAuthorize_NoTokenGuard(wire, price, requestId) ==
  LET headerObj == HeaderObj(wire)
      consumerToken == extractConsumerToken(headerObj)
  IN IF ~price.ok
     THEN [respond |-> TRUE, resp |-> PriceFailed, call |-> NoCall]
     ELSE [respond |-> FALSE, resp |-> NoResp,
           call |-> authorize(consumerToken, requestId, price.value, extractOverride(headerObj))]

\* The steps withAgon, agonMiddleware and agonPlugin's preHandler take from an
\* inbound request up to the await of authorize: the response they end with,
\* or the authorize call they send.
BeforeAuthorize(wire, price, requestId) ==
  LET headerObj == HeaderObj(wire)
      consumerToken == extractConsumerToken(headerObj)
  IN IF ~price.ok
     THEN [respond |-> TRUE, resp |-> PriceFailed, call |-> NoCall]
     ELSE IF ~Truthy(consumerToken)
     THEN LET pr == buildPaymentRequiredResponse(price.value, config.description, config.mimeType)
          IN [respond |-> TRUE, resp |-> JsonResp(pr.status, pr.body), call |-> NoCall]
     ELSE [respond |-> FALSE, resp |-> NoResp,
           call |-> authorize(consumerToken, requestId, price.value, extractOverride(headerObj))]

\* What they do with the outcome of the awaited authorize call.
AuthResultOf(result) ==
  IF result.ok THEN [status |-> result.data.status, reason |-> result.data.reason]
  ELSE [status |-> "threw", reason |-> Undef]

\* AfterAuthorize that does not look at a denied status
AfterAuthorize_NoDeniedCheck(result, price) ==
  IF ~result.ok
  THEN [approved |-> FALSE, resId |-> NoRes,
        resp |-> JsonResp(result.err.statusCode, toJSON(result.err))]
  ELSE [approved |-> TRUE, resId |-> result.data.reservation_id, resp |-> NoResp]

\* AfterAuthorize that serves the request when authorize threw a timeout
AfterAuthorize_OpenOnTimeout(result, price) ==
  IF ~result.ok /\ result.err.statusCode # 504
  THEN [approved |-> FALSE, resId |-> NoRes,
        resp |-> JsonResp(result.err.statusCode, toJSON(result.err))]
  ELSE IF result.ok /\ result.data.status = "denied"
  THEN [approved |-> FALSE, resId |-> NoRes,
        resp |-> JsonResp(402,
          [buildPaymentRequiredResponse(price.value, config.description, config.mimeType).body
             EXCEPT !.denial_reason = result.data.reason])]
  ELSE [approved |-> TRUE, resId |-> result.data.reservation_id, resp |-> NoResp]

AfterAuthorize(result, price) ==
  IF ~result.ok
  THEN [approved |-> FALSE, resId |-> NoRes,
        resp |-> JsonResp(result.err.statusCode, toJSON(result.err))]
  ELSE IF result.data.status = "denied"
  THEN [approved |-> FALSE, resId |-> NoRes,
        resp |-> JsonResp(402,
          [buildPaymentRequiredResponse(price.value, config.description, config.mimeType).body
             EXCEPT !.denial_reason = result.data.reason])]
  ELSE [approved |-> TRUE, resId |-> result.data.reservation_id, resp |-> NoResp]

\* SettleCall that consumes whatever the status
SettleCall_AlwaysConsume(status, reservationId) == consume(reservationId)

\* SettleCall that takes only a 5xx for a failure
SettleCall_Only5xx(status, reservationId) ==
  IF status < 500 THEN consume(reservationId) ELSE release(reservationId)

\* consume below 400, release otherwise
SettleCall(status, reservationId) ==
  IF status < 400 THEN consume(reservationId) ELSE release(reservationId)


\* ------------------------------------------------------ merchant actions
Last(seq) == seq[Len(seq)]

\* an inbound request is taken up to its first response or to the authorize await
Begin(r, entry, wire, price, now, rnd) ==
  LET out == BeforeAuthorize(wire, price, generateRequestId(now, rnd))
  IN /\ m' = [m EXCEPT ![r] =
            [@ EXCEPT !.entry = entry, !.wire = wire, !.price = price,
                      !.pc = IF ~out.respond THEN "authorizing"
                             ELSE IF entry = "agonPlugin" THEN "replied" ELSE "done",
                      !.resp = out.resp,
                      !.log = IF out.respond THEN <<>> ELSE <<out.call>>]]
     /\ clock' = IF out.respond THEN clock ELSE now

\* the awaited authorize call ends: the backend acted or not, the transport
\* resolved or threw
AuthorizeOutcome(r, net, decision) ==
  LET b == BackendAuthorize(bk, Last(m[r].log), decision)
      result == PlatformPost(Raw(net, b.reply))
  IN [bk |-> IF Processed(net) THEN b.bk ELSE bk,
      authResult |-> AuthResultOf(result),
      authErr |-> result.err,
      out |-> AfterAuthorize(result, m[r].price)]

withAgon_Start(r) ==
  /\ Arrives(r)
  /\ \E wire \in InboundWire, fn \in FnOutcomes, now \in clock..MaxClock, rnd \in 1..RandSpace :
       Begin(r, "withAgon", wire, calculatePrice(config.pricing, fn), now, rnd)
  /\ UNCHANGED <<config, bk, inflight, nreq>>
  /\ UNCHANGED cvars

\* withAgon_AuthorizeReturns that sends the authorize call again when the
\* first one threw
withAgon_AuthorizeReturns_Retries(r) ==
  /\ m[r].pc = "authorizing" /\ m[r].entry = "withAgon"
  /\ \E net \in NetOutcomes, decision \in BackendDecisions :
       LET o == AuthorizeOutcome(r, net, decision)
       IN /\ bk' = o.bk
          /\ m' = [m EXCEPT ![r] =
                IF o.out.approved
                THEN [@ EXCEPT !.pc = "handler", !.resId = o.out.resId,
                               !.authResult = o.authResult, !.authErr = o.authErr,
                               !.log = Append(@, HandlerEvent("handler"))]
                ELSE IF o.authResult.status = "threw" /\ Len(m[r].log) < 2
                THEN [@ EXCEPT !.authResult = o.authResult, !.authErr = o.authErr,
                               !.log = Append(@, m[r].log[1])]
                ELSE [@ EXCEPT !.pc = "done", !.authResult = o.authResult, !.authErr = o.authErr,
                               !.resp = o.out.resp]]
  /\ UNCHANGED <<config, clock, inflight, nreq>>
  /\ UNCHANGED cvars

withAgon_AuthorizeReturns(r) ==
  /\ m[r].pc = "authorizing" /\ m[r].entry = "withAgon"
  /\ \E net \in NetOutcomes, decision \in BackendDecisions :
       LET o == AuthorizeOutcome(r, net, decision)
       IN /\ bk' = o.bk
          /\ m' = [m EXCEPT ![r] =
                IF o.out.approved
                THEN [@ EXCEPT !.pc = "handler", !.resId = o.out.resId,
                               !.authResult = o.authResult, !.authErr = o.authErr,
                               !.log = Append(@, HandlerEvent("handler"))]
                ELSE [@ EXCEPT !.pc = "done", !.authResult = o.authResult, !.authErr = o.authErr,
                               !.resp = o.out.resp]]
  /\ UNCHANGED <<config, clock, inflight, nreq>>
  /\ UNCHANGED cvars

\* withAgon_HandlerThrows that answers 500 without releasing
withAgon_HandlerThrows_NoRelease(r) ==
  /\ m[r].pc = "handler" /\ m[r].entry = "withAgon"
  /\ m' = [m EXCEPT ![r] =
        [@ EXCEPT !.pc = "done", !.handler = "threw", !.resp = HandlerError,
                  !.log = Append(@, HandlerEvent("handler_end"))]]
  /\ UNCHANGED <<config, clock, bk, inflight, nreq>>
  /\ UNCHANGED cvars

\* the handler throws: release, best effort, then the 500
withAgon_HandlerThrows(r) ==
  /\ m[r].pc = "handler" /\ m[r].entry = "withAgon"
  /\ m' = [m EXCEPT ![r] =
        [@ EXCEPT !.pc = "settling", !.handler = "threw", !.resp = HandlerError,
                  !.log = @ \o <<HandlerEvent("handler_end"), release(m[r].resId)>>]]
  /\ UNCHANGED <<config, clock, bk, inflight, nreq>>
  /\ UNCHANGED cvars

\* withAgon_HandlerReturns that sends consume / release before the handler is over
withAgon_HandlerReturns_SettlesFirst(r) ==
  /\ m[r].pc = "handler" /\ m[r].entry = "withAgon"
  /\ \E status \in HandlerStatuses :
       m' = [m EXCEPT ![r] =
         [@ EXCEPT !.pc = "settling", !.handler = "returned", !.resp = HandlerResp(status),
                   !.log = @ \o <<SettleCall(status, m[r].resId), HandlerEvent("handler_end")>>]]
  /\ UNCHANGED <<config, clock, bk, inflight, nreq>>
  /\ UNCHANGED cvars

\* the handler returns a response: consume or release by its status
withAgon_HandlerReturns(r) ==
  /\ m[r].pc = "handler" /\ m[r].entry = "withAgon"
  /\ \E status \in HandlerStatuses :
       m' = [m EXCEPT ![r] =
         [@ EXCEPT !.pc = "settling", !.handler = "returned", !.resp = HandlerResp(status),
                   !.log = @ \o <<HandlerEvent("handler_end"), SettleCall(status, m[r].resId)>>]]
  /\ UNCHANGED <<config, clock, bk, inflight, nreq>>
  /\ UNCHANGED cvars

\* withAgon_SettleReturns that lets a failed consume / release escape
withAgon_SettleReturns_Uncaught(r) ==
  /\ m[r].pc = "settling" /\ m[r].entry = "withAgon"
  /\ \E net \in NetOutcomes :
       LET call == Last(m[r].log)
           b == BackendSettle(bk, call.op, call.reservation_id)
           result == PlatformPost(Raw(net, b.reply))
       IN /\ bk' = IF Processed(net) THEN b.bk ELSE bk
          /\ m' = [m EXCEPT ![r] =
                [@ EXCEPT !.pc = "done",
                          !.settled = IF result.ok THEN "resolved" ELSE "rejected",
                          !.resp = IF result.ok THEN @ ELSE [NoResp EXCEPT !.kind = "reject"]]]
  /\ UNCHANGED <<config, clock, inflight, nreq>>
  /\ UNCHANGED cvars

\* withAgon_SettleReturns that answers with the 500 when the consume / release failed
withAgon_SettleReturns_Surfaces(r) ==
  /\ m[r].pc = "settling" /\ m[r].entry = "withAgon"
  /\ \E net \in NetOutcomes :
       LET call == Last(m[r].log)
           b == BackendSettle(bk, call.op, call.reservation_id)
           result == PlatformPost(Raw(net, b.reply))
       IN /\ bk' = IF Processed(net) THEN b.bk ELSE bk
          /\ m' = [m EXCEPT ![r] =
                [@ EXCEPT !.pc = "done",
                          !.settled = IF result.ok THEN "resolved" ELSE "rejected",
                          !.resp = IF result.ok THEN @ ELSE HandlerError]]
  /\ UNCHANGED <<config, clock, inflight, nreq>>
  /\ UNCHANGED cvars

\* withAgon_SettleReturns that waits for a retry that never comes when the
\* consume / release failed
withAgon_SettleReturns_WaitsOnFailure(r) ==
  /\ m[r].pc = "settling" /\ m[r].entry = "withAgon"
  /\ \E net \in NetOutcomes :
       LET call == Last(m[r].log)
           b == BackendSettle(bk, call.op, call.reservation_id)
           result == PlatformPost(Raw(net, b.reply))
       IN /\ bk' = IF Processed(net) THEN b.bk ELSE bk
          /\ m' = [m EXCEPT ![r] =
                [@ EXCEPT !.pc = IF result.ok THEN "done" ELSE "backoff",
                          !.settled = IF result.ok THEN "resolved" ELSE "rejected"]]
  /\ UNCHANGED <<config, clock, inflight, nreq>>
  /\ UNCHANGED cvars

\* the awaited consume / release ends, whatever its outcome: the response goes out
withAgon_SettleReturns(r) ==
  /\ m[r].pc = "settling" /\ m[r].entry = "withAgon"
  /\ \E net \in NetOutcomes :
       LET call == Last(m[r].log)
           b == BackendSettle(bk, call.op, call.reservation_id)
           result == PlatformPost(Raw(net, b.reply))
       IN /\ bk' = IF Processed(net) THEN b.bk ELSE bk
          /\ m' = [m EXCEPT ![r] =
                [@ EXCEPT !.pc = "done",
                          !.settled = IF result.ok THEN "resolved" ELSE "rejected"]]
  /\ UNCHANGED <<config, clock, inflight, nreq>>
  /\ UNCHANGED cvars

\* agonProxy: a route table of static prices; an approved request is passed on
agonProxy_Start(r) ==
  /\ Arrives(r)
  /\ config.pricing.kind # "function"
  /\ \E entryFound \in BOOLEAN, wire \in InboundWire, now \in clock..MaxClock, rnd \in 1..RandSpace :
       LET headerObj == HeaderObj(wire)
           consumerToken == extractConsumerToken(headerObj)
           price == calculatePrice(config.pricing, FnThrow)
           requestId == generateRequestId(now, rnd)
           sent == entryFound /\ price.ok /\ Truthy(consumerToken)
       IN /\ m' = [m EXCEPT ![r] =
                 [@ EXCEPT
                    !.entry = "agonProxy", !.wire = wire,
                    !.price = IF entryFound THEN price ELSE Threw,
                    !.pc = IF sent THEN "authorizing" ELSE "done",
                    !.resp =
                      IF ~entryFound THEN [NoResp EXCEPT !.kind = "null"]
                      ELSE IF ~price.ok THEN [NoResp EXCEPT !.kind = "reject"]
                      ELSE IF ~Truthy(consumerToken)
                      THEN LET pr == buildPaymentRequiredResponse(price.value, config.description, Undef)
                           IN JsonResp(pr.status, pr.body)
                      ELSE NoResp,
                    !.log = IF sent
                            THEN <<authorize(consumerToken, requestId, price.value,
                                             extractOverride(headerObj))>>
                            ELSE <<>>]]
          /\ clock' = IF sent THEN now ELSE clock
  /\ UNCHANGED <<config, bk, inflight, nreq>>
  /\ UNCHANGED cvars

agonProxy_AuthorizeReturns(r) ==
  /\ m[r].pc = "authorizing" /\ m[r].entry = "agonProxy"
  /\ \E net \in NetOutcomes, decision \in BackendDecisions :
       LET b == BackendAuthorize(bk, Last(m[r].log), decision)
           result == PlatformPost(Raw(net, b.reply))
       IN /\ bk' = IF Processed(net) THEN b.bk ELSE bk
          /\ m' = [m EXCEPT ![r] =
                [@ EXCEPT
                   !.pc = "done",
                   !.authResult = AuthResultOf(result),
                   !.authErr = result.err,
                   !.resp =
                     IF ~result.ok
                     THEN JsonResp(result.err.statusCode, toJSON(result.err))
                     ELSE IF result.data.status = "denied"
                     THEN JsonResp(402,
                            [buildPaymentRequiredResponse(m[r].price.value, config.description, Undef).body
                               EXCEPT !.denial_reason = result.data.reason])
                     ELSE [NoResp EXCEPT !.kind = "null"]]]
  /\ UNCHANGED <<config, clock, inflight, nreq>>
  /\ UNCHANGED cvars

\* Express
agonMiddleware_Start(r) ==
  /\ Arrives(r)
  /\ \E wire \in InboundWire, fn \in FnOutcomes, now \in clock..MaxClock, rnd \in 1..RandSpace :
       Begin(r, "agonMiddleware", wire, calculatePrice(config.pricing, fn), now, rnd)
  /\ UNCHANGED <<config, bk, inflight, nreq>>
  /\ UNCHANGED cvars

\* approved: req.agonReservationId is set, res.end is wrapped, next() runs the route
agonMiddleware_AuthorizeReturns(r) ==
  /\ m[r].pc = "authorizing" /\ m[r].entry = "agonMiddleware"
  /\ \E net \in NetOutcomes, decision \in BackendDecisions :
       LET o == AuthorizeOutcome(r, net, decision)
       IN /\ bk' = o.bk
          /\ m' = [m EXCEPT ![r] =
                IF o.out.approved
                THEN [@ EXCEPT !.pc = "serving", !.resId = o.out.resId,
                               !.authResult = o.authResult, !.authErr = o.authErr,
                               !.log = Append(@, HandlerEvent("handler"))]
                ELSE [@ EXCEPT !.pc = "done", !.authResult = o.authResult, !.authErr = o.authErr,
                               !.resp = o.out.resp]]
  /\ UNCHANGED <<config, clock, inflight, nreq>>
  /\ UNCHANGED cvars

\* the wrapped res.end: the original end, then consume or release, not awaited
agonMiddleware_End(r) ==
  /\ m[r].pc = "serving" /\ m[r].entry = "agonMiddleware"
  /\ m[r].ends < MaxEnd
  /\ \E statusCode \in HandlerStatuses :
       /\ m[r].ends > 0 => statusCode = m[r].resp.status
       /\ LET call == SettleCall(statusCode, m[r].resId)
          IN /\ m' = [m EXCEPT ![r] =
                    [@ EXCEPT !.ends = @ + 1, !.resp = HandlerResp(statusCode),
                              !.log = Append(@, call)]]
             /\ inflight' = inflight \cup {[r |-> r, n |-> Len(m[r].log) + 1, call |-> call]}
  /\ UNCHANGED <<config, clock, bk, nreq>>
  /\ UNCHANGED cvars

\* the route handler is over, the response ended
agonMiddleware_HandlerDone(r) ==
  /\ m[r].pc = "serving" /\ m[r].entry = "agonMiddleware"
  /\ m[r].ends > 0
  /\ m' = [m EXCEPT ![r] =
        [@ EXCEPT !.pc = "done", !.handler = "returned",
                  !.log = Append(@, HandlerEvent("handler_end"))]]
  /\ UNCHANGED <<config, clock, bk, inflight, nreq>>
  /\ UNCHANGED cvars

\* Fastify
agonPlugin_preHandler(r) ==
  /\ Arrives(r)
  /\ \E wire \in InboundWire, fn \in FnOutcomes, now \in clock..MaxClock, rnd \in 1..RandSpace :
       Begin(r, "agonPlugin", wire, calculatePrice(config.pricing, fn), now, rnd)
  /\ UNCHANGED <<config, bk, inflight, nreq>>
  /\ UNCHANGED cvars

agonPlugin_AuthorizeReturns(r) ==
  /\ m[r].pc = "authorizing" /\ m[r].entry = "agonPlugin"
  /\ \E net \in NetOutcomes, decision \in BackendDecisions :
       LET o == AuthorizeOutcome(r, net, decision)
       IN /\ bk' = o.bk
          /\ m' = [m EXCEPT ![r] =
                IF o.out.approved
                THEN [@ EXCEPT !.pc = "serving", !.resId = o.out.resId,
                               !.authResult = o.authResult, !.authErr = o.authErr,
                               !.log = Append(@, HandlerEvent("handler"))]
                ELSE [@ EXCEPT !.pc = "replied", !.authResult = o.authResult, !.authErr = o.authErr,
                               !.resp = o.out.resp]]
  /\ UNCHANGED <<config, clock, inflight, nreq>>
  /\ UNCHANGED cvars

\* the route handler replies (a throw is Fastify's 500)
agonPlugin_HandlerReplies(r) ==
  /\ m[r].pc = "serving" /\ m[r].entry = "agonPlugin"
  /\ \E statusCode \in HandlerStatuses :
       m' = [m EXCEPT ![r] =
         [@ EXCEPT !.pc = "replied", !.handler = "returned", !.resp = HandlerResp(statusCode),
                   !.log = Append(@, HandlerEvent("handler_end"))]]
  /\ UNCHANGED <<config, clock, bk, inflight, nreq>>
  /\ UNCHANGED cvars

\* the onResponse hook: nothing without a reservation id, else consume or
\* release by reply.statusCode, not awaited
agonPlugin_onResponse(r) ==
  /\ m[r].pc = "replied" /\ m[r].entry = "agonPlugin"
  /\ IF m[r].resId = NoRes
     THEN /\ m' = [m EXCEPT ![r].pc = "done"]
          /\ UNCHANGED inflight
     ELSE LET call == SettleCall(m[r].resp.status, m[r].resId)
          IN /\ m' = [m EXCEPT ![r] = [@ EXCEPT !.pc = "done", !.log = Append(@, call)]]
             /\ inflight' = inflight \cup {[r |-> r, n |-> Len(m[r].log) + 1, call |-> call]}
  /\ UNCHANGED <<config, clock, bk, nreq>>
  /\ UNCHANGED cvars

\* a consume / release that nobody awaits reaches the backend, or is lost
BackendSettlesInflight ==
  \E x \in inflight, seen \in BOOLEAN :
    /\ inflight' = inflight \ {x}
    /\ bk' = IF seen THEN BackendSettle(bk, x.call.op, x.call.reservation_id).bk ELSE bk
    /\ UNCHANGED <<config, clock, m, nreq, cl, fetches, ncalls>>

MerchantNext ==
  \/ \E r \in Req :
       \/ withAgon_Start(r)
       \/ withAgon_AuthorizeReturns(r)
       \/ withAgon_HandlerThrows(r)
       \/ withAgon_HandlerReturns(r)
       \/ withAgon_SettleReturns(r)
       \/ agonProxy_Start(r)
       \/ agonProxy_AuthorizeReturns(r)
       \/ agonMiddleware_Start(r)
       \/ agonMiddleware_AuthorizeReturns(r)
       \/ agonMiddleware_End(r)
       \/ agonMiddleware_HandlerDone(r)
       \/ agonPlugin_preHandler(r)
       \/ agonPlugin_AuthorizeReturns(r)
       \/ agonPlugin_HandlerReplies(r)
       \/ agonPlugin_onResponse(r)
  \/ BackendSettlesInflight

SpecMerchant == MInit /\ [][MerchantNext]_vars

\* =========================================================== the consumer
\* ------------------------------------------------ client AgonHttpClient
ContentType == OneHeader("Content-Type", "application/json")

\* the headers of a backend call: the key if one is set, else the wallet
\* signature headers if the transport was given a wallet, else neither
RequestHeaders(http) ==
  IF Truthy(http.apiKey)
  THEN Merge(ContentType, OneHeader(CONSUMER_KEY, http.apiKey))
  ELSE IF http.wallet
  THEN Merge(ContentType,
             Merge(OneHeader("X-AGON-WALLET", "wallet1"),
                   Merge(OneHeader("X-AGON-SIGNATURE", "sig_auth"),
                         OneHeader("X-AGON-TIMESTAMP", "now"))))
  ELSE ContentType

\* client AgonHttpClient.request, from what fetch() handed it
ClientRequest(raw) ==
  IF raw.kind = "abort"
  THEN Rejected(AgonError(504, [Json EXCEPT !.error = "internal_error",
                                            !.message = "Agon API request timed out"]))
  ELSE IF raw.kind = "neterr" \/ ~raw.parseable
  THEN Rejected(AgonError(502, [Json EXCEPT !.error = "internal_error",
                                            !.message = "Failed to reach Agon API at"]))
  ELSE IF ~ResOk(raw.status)
  THEN IF Truthy(raw.body.error)
       THEN Rejected(AgonError(raw.status, raw.body))
       ELSE Rejected(AgonError(raw.status, [Json EXCEPT !.error = "internal_error",
                                                        !.message = "Agon API returned"]))
  ELSE Resolved(raw.body)

\* AgonClient.setApiKey
setApiKey(c, apiKey) == [c EXCEPT !.apiKey = apiKey, !.http.apiKey = apiKey]

\* ------------------------------------------------------ what a call sends
NoBody ==
  [ttl |-> 0, request_id |-> NoReqId, override |-> NoObj, headers |-> NoHeaders,
   forwards |-> FALSE, payment_required |-> Undef, message |-> Undef,
   max_amount |-> NoAmount, budget |-> NoAmount]

\* one thing a fetch call did: a backend call, a dispatch to the merchant,
\* an invocation of the onLimitExceeded callback
Sent(op, to, headers, body) == [op |-> op, to |-> to, headers |-> headers, body |-> body]

\* the opts of createAuthToken: { ttl } or {}

\* createAuthToken(opts) past requireAuth: POST /account/create-token with
\* ttl: opts?.ttl ?? 60
createAuthToken(c, opts) ==
  Sent("create-token", "backend", RequestHeaders(c.http),
       [NoBody EXCEPT !.ttl = IF opts.hasTtl THEN opts.ttl ELSE 60,
                      !.max_amount = opts.maxAmount])

\* new Headers(init?.headers): names are lower-cased
Headers(init) == HeaderObj(init)

\* Headers.prototype.set
HeadersSet(h, name, value) ==
  [k \in DOMAIN h \cup {toLowerCase(name)} |->
     IF k = toLowerCase(name) THEN value ELSE h[k]]

\* DispatchHeaders that attaches one token kept for the whole instance
DispatchHeaders_InstanceToken(init, token) == HeadersSet(Headers(init), CONSUMER_TOKEN, "tok1")

\* DispatchHeaders with the token placed in the raw-key header
DispatchHeaders_AsKey(init, token) == HeadersSet(Headers(init), CONSUMER_KEY, token)

\* the headers of the first dispatch to the merchant
DispatchHeaders(init, token) == HeadersSet(Headers(init), CONSUMER_TOKEN, token)

\* RetryHeaders without the signed-message header
RetryHeaders_NoMessage(init, retryToken, override) ==
  HeadersSet(HeadersSet(Headers(init), CONSUMER_TOKEN, retryToken),
             OVERRIDE_SIG, override.signature)

\* the headers of the override retry
RetryHeaders(init, retryToken, override) ==
  HeadersSet(HeadersSet(HeadersSet(Headers(init), CONSUMER_TOKEN, retryToken),
                        OVERRIDE_SIG, override.signature),
             OVERRIDE_MSG, override.message)

\* extractHeaders(init): undefined without init.headers, else every header
extractHeaders(init) == IF init = NoHeaders THEN NoHeaders ELSE Headers(init)

\* toBase64(str): btoa of the strings the merchant answers carry
toBase64(str) ==
  CASE str = "x402-challenge" -> "eDQwMi1jaGFsbGVuZ2U="
    [] str = "" -> ""
    [] OTHER -> "base64:" \o str

\* ProxyBody that leaves the challenge out
ProxyBody_NoChallenge(init, requestId, override, paymentRequired) ==
  [NoBody EXCEPT !.request_id = requestId, !.override = override,
                 !.headers = extractHeaders(init), !.forwards = TRUE]

\* the body of POST /proxy
ProxyBody(init, requestId, override, paymentRequired) ==
  [NoBody EXCEPT !.request_id = requestId, !.override = override,
                 !.headers = extractHeaders(init), !.forwards = TRUE,
                 !.payment_required = toBase64(paymentRequired)]

\* `proxy_${Date.now()}_${random}`
proxyRequestId(now, rnd) == [pfx |-> "proxy", ts |-> now, rnd |-> rnd]

\* requireAuth
NoApiKey ==
  AgonError(401, [Json EXCEPT !.error = "invalid_api_key", !.message = "API key not set"])

\* signOverride: the custom signer's answer, the wallet's signature, or an error
SignerOutcomes == {"signs", "throws"}

NoSigner ==
  AgonError(400, [Json EXCEPT !.error = "validation_error", !.message = "No signer available"])

signOverride(c, message, signer) ==
  IF c.customSigner
  THEN IF signer = "signs"
       THEN [ok |-> TRUE, threw |-> "", value |-> [signature |-> "sig_custom", message |-> message]]
       ELSE [ok |-> FALSE, threw |-> "other", value |-> NoObj]
  ELSE IF c.wallet
  THEN [ok |-> TRUE, threw |-> "", value |-> [signature |-> "sig1", message |-> message]]
  ELSE [ok |-> FALSE, threw |-> "AgonError", value |-> NoObj]

\* ------------------------------------------------- how a fetch call ends
\* Returns that hands back a fresh 200 response instead of the one received
Returns_Fresh200(status) == [kind |-> "response", status |-> 200, err |-> AgonError(0, Json)]
Returns(status) == [kind |-> "response", status |-> status, err |-> AgonError(0, Json)]
Throws(err) == [kind |-> "AgonError", status |-> 0, err |-> err]
ThrowsOther == [kind |-> "error", status |-> 0, err |-> AgonError(0, Json)]

\* ------------------------------------------ what the merchant URL answers
MResp(status, paymentRequired, parseable, body) ==
  [kind |-> "response", status |-> status, paymentRequired |-> paymentRequired,
   parseable |-> parseable, body |-> body]

FetchFailed == [kind |-> "neterr", status |-> 0, paymentRequired |-> Undef,
                parseable |-> FALSE, body |-> Json]

LimitDetails(signMessage) ==
  IF signMessage = Undef
  THEN [limit_type |-> "max_per_request", requested |-> 1000, limit |-> 0,
        override_available |-> TRUE]
  ELSE [limit_type |-> "max_per_request", requested |-> 1000, limit |-> 0,
        override_available |-> TRUE, sign_message |-> signMessage]

MerchantReplies ==
  { MResp(200, Undef, TRUE, Json),
    MResp(500, Undef, TRUE, Json),
    MResp(402, "x402-challenge", TRUE, [Json EXCEPT !.error = "spending_limit_exceeded",
                                                     !.details = LimitDetails(Challenge)]),
    MResp(402, Undef, FALSE, Json),
    MResp(402, Undef, TRUE, Json),
    MResp(402, Undef, TRUE, buildPaymentRequiredResponse(1000, Undef, Undef).body),
    MResp(402, Undef, TRUE, [Json EXCEPT !.error = "spending_limit_exceeded",
                                         !.details = LimitDetails(Challenge)]),
    MResp(402, Undef, TRUE, [Json EXCEPT !.error = "spending_limit_exceeded",
                                         !.details = LimitDetails(Undef)]),
    MResp(402, Undef, TRUE, [Json EXCEPT !.error = "spending_limit_exceeded",
                                         !.details = [LimitDetails(Challenge) EXCEPT
                                                        !.override_available = FALSE]]),
    MResp(402, Undef, TRUE, [Json EXCEPT !.error = "insufficient_balance",
                                         !.details = LimitDetails(Challenge)]),
    MResp(402, Undef, TRUE, [Json EXCEPT !.error = "spending_limit_exceeded",
                                         !.payment_info = LimitDetails(Challenge)]),
    FetchFailed }

\* what the caller passes as init.headers
CallerInits ==
  { NoHeaders,
    OneHeader("Accept", "application/json"),
    OneHeader("X-Agon-Token", "stale") }

\* the 402 the orchestrator makes of a payment-required answer it can parse
PaymentError(errorBody) ==
  AgonError(402, [Json EXCEPT
    !.error = Coalesce(errorBody.error, "insufficient_balance"),
    !.message = Coalesce(errorBody.message, "Payment required"),
    !.details = IF errorBody.details # NoObj THEN errorBody.details
                ELSE errorBody.payment_info])

NoDetails ==
  AgonError(402, [Json EXCEPT !.error = "insufficient_balance",
                              !.message = "Payment required but no details available"])

\* the terminal error of an override retry answered 402
RetryError(retryBody) ==
  AgonError(402, [Json EXCEPT
    !.error = Coalesce(retryBody.error, "spending_limit_exceeded"),
    !.message = Coalesce(retryBody.message, "Spending limit override failed"),
    !.details = retryBody.details])

\* -------------------------------------------------------- consumer inputs
ClientConfigs ==
  { AgonClientNew(k, cb[1], cb[2], cb[3]) :
      k \in {Undef, "ak_live_1"},
      cb \in { <<TRUE, TRUE, FALSE>>,      \* { wallet: Keypair, onLimitExceeded }
               <<TRUE, FALSE, TRUE>>,      \* { signer, onLimitExceeded }
               <<FALSE, TRUE, FALSE>>,     \* { wallet: Keypair }
               <<TRUE, FALSE, FALSE>> } }  \* { signer: undefined, onLimitExceeded }

CallbackOutcomes == {"approve", "reject", "throws"}

\* fetch calls are numbered in the order they are made
Starts(k) ==
  /\ k <= ncalls
  /\ fetches[k].pc = "idle"
  /\ IF k = 1 THEN TRUE ELSE fetches[k - 1].pc # "idle"

ClientInit ==
  /\ config = [pricing |-> StrPrice(TRUE, FALSE, 10000), description |-> Undef,
               mimeType |-> Undef]
  /\ clock = 0
  /\ bk = BackendInit
  /\ m = [r \in Req |-> Idle]
  /\ inflight = {}
  /\ nreq = 0
  /\ cl \in ClientConfigs
  /\ fetches = [k \in Call |-> NoFetch]
  /\ ncalls = NumSolo

\* the call ends: its promise resolves with a response or rejects
Done(calls, k, result) ==
  [calls EXCEPT ![k] = [@ EXCEPT !.pc = "done", !.result = result]]

Finish(k, result) == fetches' = Done(fetches, k, result)

\* the status of the merchant's answer is in hand (0: fetch itself failed)
Got(k, res) == [fetches EXCEPT ![k].res = res.status]

\* the same for the answer to the first dispatch, which the model keeps
GotFirst(k, res) == [fetches EXCEPT ![k].res = res.status, ![k].first = res]

\* the call goes on to await what it just sent
Await(k, pc, sent) ==
  fetches' = [fetches EXCEPT ![k] = [@ EXCEPT !.pc = pc, !.log = Append(@, sent)]]

Callback == Sent("onLimitExceeded", "caller", NoHeaders, NoBody)

\* ------------------------------------------------------- consumer actions
AgonClient_setApiKey ==
  /\ \E apiKey \in ApiKeys :
       /\ cl.apiKey # apiKey
       /\ cl' = setApiKey(cl, apiKey)
  /\ \E k \in Call : fetches[k].pc # "done"
  /\ UNCHANGED <<config, clock, bk, m, inflight, nreq, fetches, ncalls>>

\* fetch that goes on to createAuthToken without requireAuth
AgonClient_fetch_NoGuard(k) ==
  /\ Starts(k)
  /\ \E init \in CallerInits :
       fetches' = [fetches EXCEPT ![k] =
         [@ EXCEPT !.pc = "token", !.after = {j \in Call : fetches[j].pc = "done"},
                   !.init = init, !.log = <<createAuthToken(cl, NoOpts)>>]]
  /\ UNCHANGED <<config, clock, bk, m, inflight, nreq, cl, ncalls>>

\* fetch(url, init): requireAuth, then createAuthToken sends its request
AgonClient_fetch(k) ==
  /\ Starts(k)
  /\ \E init \in CallerInits :
       LET ended == {j \in Call : fetches[j].pc = "done"}
       IN IF ~Truthy(cl.apiKey)
          THEN fetches' = [fetches EXCEPT ![k] =
                 [@ EXCEPT !.pc = "done", !.after = ended, !.init = init,
                           !.result = Throws(NoApiKey)]]
          ELSE fetches' = [fetches EXCEPT ![k] =
                 [@ EXCEPT !.pc = "token", !.after = ended, !.init = init,
                           !.log = <<createAuthToken(cl, NoOpts)>>]]
  /\ UNCHANGED <<config, clock, bk, m, inflight, nreq, cl, ncalls>>

\* the token arrives (or not); with it the request goes to the merchant
\* fetch_TokenReturns that forgets the API key when the backend refuses it
fetch_TokenReturns_DropsKey(k) ==
  /\ fetches[k].pc = "token"
  /\ \E net \in NetOutcomes :
       LET b == BackendCreateToken(bk, Last(fetches[k].log).headers)
           result == ClientRequest(Raw(net, b.reply))
       IN /\ bk' = IF Processed(net) THEN b.bk ELSE bk
          /\ cl' = IF ~result.ok /\ result.err.statusCode = 401
                   THEN [cl EXCEPT !.apiKey = Undef] ELSE cl
          /\ IF ~result.ok
             THEN Finish(k, Throws(result.err))
             ELSE Await(k, "merchant",
                        Sent("dispatch", "merchant",
                             DispatchHeaders(fetches[k].init, result.data.token), NoBody))
  /\ UNCHANGED <<config, clock, m, inflight, nreq, ncalls>>

fetch_TokenReturns(k) ==
  /\ fetches[k].pc = "token"
  /\ \E net \in NetOutcomes :
       LET b == BackendCreateToken(bk, Last(fetches[k].log).headers)
           result == ClientRequest(Raw(net, b.reply))
       IN /\ bk' = IF Processed(net) THEN b.bk ELSE bk
          /\ IF ~result.ok
             THEN Finish(k, Throws(result.err))
             ELSE Await(k, "merchant",
                        Sent("dispatch", "merchant",
                             DispatchHeaders(fetches[k].init, result.data.token), NoBody))
  /\ UNCHANGED <<config, clock, m, inflight, nreq, cl, ncalls>>

\* the merchant's answer res to the first dispatch
fetch_Receives(k, res, now, rnd) ==
  /\ fetches[k].pc = "merchant"
  /\ IF res.kind = "neterr"
     THEN fetches' = Done(GotFirst(k, res), k, ThrowsOther) /\ UNCHANGED clock
     ELSE IF res.status # 402
     THEN fetches' = Done(GotFirst(k, res), k, Returns(res.status)) /\ UNCHANGED clock
     ELSE IF Truthy(res.paymentRequired)
     THEN /\ fetches' = [GotFirst(k, res) EXCEPT ![k] =
                [@ EXCEPT !.pc = "proxy", !.requestId = proxyRequestId(now, rnd),
                          !.log = Append(@, Sent("proxy", "backend", RequestHeaders(cl.http),
                                     ProxyBody(fetches[k].init, proxyRequestId(now, rnd), NoObj,
                                               res.paymentRequired)))]]
          /\ clock' = now
     ELSE IF ~res.parseable
     THEN fetches' = Done(GotFirst(k, res), k, Throws(NoDetails)) /\ UNCHANGED clock
     ELSE LET error == PaymentError(res.body)
          IN /\ UNCHANGED clock
             /\ IF isSpendingLimitExceeded(error) /\ isOverrideAvailable(error)
                THEN IF ~cl.onLimitExceeded
                     THEN fetches' = Done(GotFirst(k, res), k, Throws(error))
                     ELSE fetches' = [GotFirst(k, res) EXCEPT ![k] =
                            [@ EXCEPT !.pc = "deciding", !.error = error,
                                      !.log = Append(@, Callback)]]
                ELSE fetches' = Done(GotFirst(k, res), k, Throws(error))
  /\ UNCHANGED <<config, bk, m, inflight, nreq, cl, ncalls>>

fetch_MerchantResponds(k) ==
  \E res \in MerchantReplies, now \in clock..MaxClock, rnd \in 1..RandSpace :
    fetch_Receives(k, res, now, rnd)

\* OverrideStep that takes any settled decision for an approval
OverrideStep_AnyDecision(c, error, decision, signer) ==
  LET signMsg == getOverrideSignMessage(error)
      signed == signOverride(c, signMsg, signer)
      sign == Sent("signOverride", "signer", NoHeaders, [NoBody EXCEPT !.message = signMsg])
  IN IF decision = "throws"
     THEN [go |-> FALSE, result |-> ThrowsOther, override |-> NoObj, log |-> <<>>]
     ELSE IF ~signed.ok
     THEN [go |-> FALSE, override |-> NoObj, log |-> <<sign>>,
           result |-> IF signed.threw = "AgonError" THEN Throws(NoSigner) ELSE ThrowsOther]
     ELSE [go |-> TRUE, result |-> NoResult, override |-> signed.value, log |-> <<sign>>]

\* what handleSpendingLimitOverride and the catch block of proxyX402 do once
\* onLimitExceeded has settled with decision: throw, or sign the override.
\* log: the call of signOverride, when it is made
OverrideStep(c, error, decision, signer) ==
  LET signMsg == getOverrideSignMessage(error)
      signed == signOverride(c, signMsg, signer)
      sign == Sent("signOverride", "signer", NoHeaders, [NoBody EXCEPT !.message = signMsg])
  IN IF decision = "throws"
     THEN [go |-> FALSE, result |-> ThrowsOther, override |-> NoObj, log |-> <<>>]
     ELSE IF decision # "approve"
     THEN [go |-> FALSE, result |-> Throws(error), override |-> NoObj, log |-> <<>>]
     ELSE IF ~Truthy(signMsg)
     THEN [go |-> FALSE, result |-> Throws(error), override |-> NoObj, log |-> <<>>]
     ELSE IF ~signed.ok
     THEN [go |-> FALSE, override |-> NoObj, log |-> <<sign>>,
           result |-> IF signed.threw = "AgonError" THEN Throws(NoSigner) ELSE ThrowsOther]
     ELSE [go |-> TRUE, result |-> NoResult, override |-> signed.value, log |-> <<sign>>]

\* the call has the callback's decision and what OverrideStep logged
Decided(k, decision, s) ==
  [fetches EXCEPT ![k].decision = decision, ![k].log = @ \o s.log]

\* onLimitExceeded settles; on approval the override is signed and
\* createAuthToken sends its request for the retry token
handleSpendingLimitOverride_Decides(k) ==
  /\ fetches[k].pc = "deciding"
  /\ \E decision \in CallbackOutcomes, signer \in SignerOutcomes :
       LET s == OverrideStep(cl, fetches[k].error, decision, signer)
       IN IF ~s.go THEN fetches' = Done(Decided(k, decision, s), k, s.result)
          ELSE IF ~Truthy(cl.apiKey)
          THEN fetches' = Done(Decided(k, decision, s), k, Throws(NoApiKey))
          ELSE fetches' = [Decided(k, decision, s) EXCEPT ![k] =
                 [@ EXCEPT !.pc = "retryToken", !.override = s.override,
                           !.log = Append(@, createAuthToken(cl, NoOpts))]]
  /\ UNCHANGED <<config, clock, bk, m, inflight, nreq, cl, ncalls>>

\* the retry token arrives (or not); with it the retry goes to the merchant
handleSpendingLimitOverride_TokenReturns(k) ==
  /\ fetches[k].pc = "retryToken"
  /\ \E net \in NetOutcomes :
       LET b == BackendCreateToken(bk, Last(fetches[k].log).headers)
           result == ClientRequest(Raw(net, b.reply))
       IN /\ bk' = IF Processed(net) THEN b.bk ELSE bk
          /\ IF ~result.ok
             THEN Finish(k, Throws(result.err))
             ELSE Await(k, "retry",
                        Sent("dispatch", "merchant",
                             RetryHeaders(fetches[k].init, result.data.token,
                                          fetches[k].override), NoBody))
  /\ UNCHANGED <<config, clock, m, inflight, nreq, cl, ncalls>>

\* handleSpendingLimitOverride_Receives that negotiates again on a 402
handleSpendingLimitOverride_Receives_Again(k, retryRes) ==
  /\ fetches[k].pc = "retry"
  /\ IF retryRes.kind = "neterr" THEN fetches' = Done(Got(k, retryRes), k, ThrowsOther)
     ELSE IF retryRes.status = 402
     THEN IF ~retryRes.parseable
          THEN fetches' = Done(Got(k, retryRes), k, Throws(fetches[k].error))
          ELSE IF isOverrideAvailable(PaymentError(retryRes.body))
          THEN fetches' = [Got(k, retryRes) EXCEPT ![k] =
                 [@ EXCEPT !.pc = "deciding", !.error = PaymentError(retryRes.body),
                           !.log = Append(@, Callback)]]
          ELSE fetches' = Done(Got(k, retryRes), k, Throws(RetryError(retryRes.body)))
     ELSE fetches' = Done(Got(k, retryRes), k, Returns(retryRes.status))
  /\ UNCHANGED <<config, clock, bk, m, inflight, nreq, cl, ncalls>>

\* the merchant's answer retryRes to the override retry
handleSpendingLimitOverride_Receives(k, retryRes) ==
  /\ fetches[k].pc = "retry"
  /\ IF retryRes.kind = "neterr" THEN fetches' = Done(Got(k, retryRes), k, ThrowsOther)
     ELSE IF retryRes.status = 402
     THEN IF ~retryRes.parseable
          THEN fetches' = Done(Got(k, retryRes), k, Throws(fetches[k].error))
          ELSE fetches' = Done(Got(k, retryRes), k, Throws(RetryError(retryRes.body)))
     ELSE fetches' = Done(Got(k, retryRes), k, Returns(retryRes.status))
  /\ UNCHANGED <<config, clock, bk, m, inflight, nreq, cl, ncalls>>

handleSpendingLimitOverride_RetryResponds(k) ==
  \E retryRes \in MerchantReplies : handleSpendingLimitOverride_Receives(k, retryRes)

\* POST /proxy returns: the reconstructed response, an error, or the override callback
proxyX402_Returns(k) ==
  /\ fetches[k].pc = "proxy"
  /\ \E net \in NetOutcomes, decision \in ProxyDecisions :
       LET call == Last(fetches[k].log)
           b == BackendProxy(bk, call.headers, call.body, decision)
           result == ClientRequest(Raw(net, b.reply))
           err == result.err
       IN /\ bk' = IF Processed(net) THEN b.bk ELSE bk
          /\ IF result.ok
             THEN Finish(k, Returns(result.data.upstream))
             ELSE IF ~isSpendingLimitExceeded(err) \/ ~isOverrideAvailable(err)
             THEN Finish(k, Throws(err))
             ELSE IF ~cl.onLimitExceeded
             THEN Finish(k, Throws(err))
             ELSE fetches' = [fetches EXCEPT ![k] =
                    [@ EXCEPT !.pc = "proxyDeciding", !.error = err,
                              !.log = Append(@, Callback)]]
  /\ UNCHANGED <<config, clock, m, inflight, nreq, cl, ncalls>>

\* onLimitExceeded settles; on approval POST /proxy is sent again with the
\* same request_id and the signed override
proxyX402_Decides(k) ==
  /\ fetches[k].pc = "proxyDeciding"
  /\ \E decision \in CallbackOutcomes, signer \in SignerOutcomes :
       LET s == OverrideStep(cl, fetches[k].error, decision, signer)
       IN IF ~s.go THEN fetches' = Done(Decided(k, decision, s), k, s.result)
          ELSE fetches' = [Decided(k, decision, s) EXCEPT ![k] =
                 [@ EXCEPT !.pc = "proxyRetry", !.override = s.override,
                           !.log = Append(@, Sent("proxy", "backend", RequestHeaders(cl.http),
                                      ProxyBody(fetches[k].init, fetches[k].requestId,
                                                s.override,
                                                fetches[k].first.paymentRequired)))]]
  /\ UNCHANGED <<config, clock, bk, m, inflight, nreq, cl, ncalls>>

\* the second POST /proxy returns
\* proxyX402_RetryReturns that posts once more when the retry failed
proxyX402_RetryReturns_PostsAgain(k) ==
  /\ fetches[k].pc = "proxyRetry"
  /\ \E net \in NetOutcomes, decision \in ProxyDecisions :
       LET call == Last(fetches[k].log)
           b == BackendProxy(bk, call.headers, call.body, decision)
           result == ClientRequest(Raw(net, b.reply))
       IN /\ bk' = IF Processed(net) THEN b.bk ELSE bk
          /\ IF result.ok
             THEN Finish(k, Returns(result.data.upstream))
             ELSE IF Len(fetches[k].log) < 7
             THEN fetches' = [fetches EXCEPT ![k].log = Append(@, call)]
             ELSE Finish(k, Throws(result.err))
  /\ UNCHANGED <<config, clock, m, inflight, nreq, cl, ncalls>>

proxyX402_RetryReturns(k) ==
  /\ fetches[k].pc = "proxyRetry"
  /\ \E net \in NetOutcomes, decision \in ProxyDecisions :
       LET call == Last(fetches[k].log)
           b == BackendProxy(bk, call.headers, call.body, decision)
           result == ClientRequest(Raw(net, b.reply))
       IN /\ bk' = IF Processed(net) THEN b.bk ELSE bk
          /\ IF result.ok
             THEN Finish(k, Returns(result.data.upstream))
             ELSE Finish(k, Throws(result.err))
  /\ UNCHANGED <<config, clock, m, inflight, nreq, cl, ncalls>>

\* what callers pass to createAuthToken: nothing, or a ttl in seconds
TokenOptsInputs ==
  {NoOpts, TokenOpts(TRUE, 0), TokenOpts(TRUE, 1), TokenOpts(TRUE, 300), TokenOpts(TRUE, 301),
   [NoOpts EXCEPT !.maxAmount = 1000000],
   [NoOpts EXCEPT !.maxAmount = 1000000, !.budget = 5000000]}

\* how a createAuthToken call ends when the token arrives
ReturnsToken == [kind |-> "token", status |-> 0, err |-> AgonError(0, Json)]

\* the caller's own createAuthToken(opts): requireAuth, then the request
AgonClient_createAuthToken(k) ==
  /\ Starts(k)
  /\ \E opts \in TokenOptsInputs :
       IF ~Truthy(cl.apiKey)
       THEN fetches' = [fetches EXCEPT ![k] =
              [@ EXCEPT !.pc = "done", !.api = "createAuthToken",
                        !.result = Throws(NoApiKey)]]
       ELSE fetches' = [fetches EXCEPT ![k] =
              [@ EXCEPT !.pc = "tokenOnly", !.api = "createAuthToken", !.opts = opts,
                        !.log = <<createAuthToken(cl, opts)>>]]
  /\ UNCHANGED <<config, clock, bk, m, inflight, nreq, cl, ncalls>>

\* POST /account/create-token returns to the caller
createAuthToken_Returns(k) ==
  /\ fetches[k].pc = "tokenOnly"
  /\ \E net \in NetOutcomes :
       LET b == BackendCreateToken(bk, Last(fetches[k].log).headers)
           result == ClientRequest(Raw(net, b.reply))
       IN /\ bk' = IF Processed(net) THEN b.bk ELSE bk
          /\ fetches' = Done([fetches EXCEPT ![k].raw = Raw(net, b.reply)], k,
                             IF result.ok THEN ReturnsToken ELSE Throws(result.err))
  /\ UNCHANGED <<config, clock, m, inflight, nreq, cl, ncalls>>

NoKeypair ==
  AgonError(400, [Json EXCEPT !.error = "validation_error",
                              !.message = "register() requires a Keypair"])

\* register(): requireKeypair, then POST /account/register
AgonClient_register(k) ==
  /\ Starts(k)
  /\ IF ~cl.wallet
     THEN fetches' = [fetches EXCEPT ![k] =
            [@ EXCEPT !.pc = "done", !.api = "register", !.result = Throws(NoKeypair)]]
     ELSE fetches' = [fetches EXCEPT ![k] =
            [@ EXCEPT !.pc = "registering", !.api = "register",
                      !.log = <<Sent("register", "backend", RequestHeaders(cl.http), NoBody)>>]]
  /\ UNCHANGED <<config, clock, bk, m, inflight, nreq, cl, ncalls>>

\* POST /account/register returns: the client keeps the key it was given
register_Returns(k) ==
  /\ fetches[k].pc = "registering"
  /\ \E net \in NetOutcomes :
       LET b == BackendRegister(bk)
           result == ClientRequest(Raw(net, b.reply))
       IN /\ bk' = IF Processed(net) THEN b.bk ELSE bk
          /\ IF result.ok
             THEN /\ cl' = [setApiKey(cl, result.data.api_key) EXCEPT
                            !.accountId = result.data.account_id,
                            !.depositAddress = result.data.deposit_address]
                  /\ Finish(k, [ReturnsToken EXCEPT !.kind = "account"])
             ELSE /\ UNCHANGED cl
                  /\ Finish(k, Throws(result.err))
  /\ UNCHANGED <<config, clock, m, inflight, nreq, ncalls>>

ClientNext ==
  \/ AgonClient_setApiKey
  \/ \E k \in Call :
       \/ AgonClient_fetch(k)
       \/ AgonClient_register(k)
       \/ register_Returns(k)
       \/ AgonClient_createAuthToken(k)
       \/ createAuthToken_Returns(k)
       \/ fetch_TokenReturns(k)
       \/ fetch_MerchantResponds(k)
       \/ handleSpendingLimitOverride_Decides(k)
       \/ handleSpendingLimitOverride_TokenReturns(k)
       \/ handleSpendingLimitOverride_RetryResponds(k)
       \/ proxyX402_Returns(k)
       \/ proxyX402_Decides(k)
       \/ proxyX402_RetryReturns(k)

SpecClient == ClientInit /\ [][ClientNext]_vars

\* a caller that makes every fetch call of the run with one keyed client
RetryInit ==
  /\ config = [pricing |-> StrPrice(TRUE, FALSE, 10000), description |-> Undef,
               mimeType |-> Undef]
  /\ clock = 0
  /\ bk = BackendInit
  /\ m = [r \in Req |-> Idle]
  /\ inflight = {}
  /\ nreq = 0
  /\ cl = AgonClientNew("ak_live_1", TRUE, TRUE, FALSE)
  /\ fetches = [k \in Call |-> NoFetch]
  /\ ncalls = NumCalls

\* the caller's own retry: fetch is called again once the earlier call ended
AgonClient_fetchAgain(k) ==
  /\ \A j \in 1..(k - 1) : fetches[j].pc = "done"
  /\ AgonClient_fetch(k)

RetryNext ==
  \/ AgonClient_setApiKey
  \/ \E k \in Call :
       \/ AgonClient_fetchAgain(k)
       \/ fetch_TokenReturns(k)
       \/ fetch_MerchantResponds(k)
       \/ handleSpendingLimitOverride_Decides(k)
       \/ handleSpendingLimitOverride_TokenReturns(k)
       \/ handleSpendingLimitOverride_RetryResponds(k)
       \/ proxyX402_Returns(k)
       \/ proxyX402_Decides(k)
       \/ proxyX402_RetryReturns(k)

SpecClientRetry == RetryInit /\ [][RetryNext]_vars

\* ================================== the consumer against a withAgon route
\* the dispatches of call k, in order
Dispatched(k) ==
  LET IsDispatch(e) == e.op = "dispatch" IN SelectSeq(fetches[k].log, IsDispatch)

\* what the protected handler may put in the body of its own response
HandlerBodies ==
  { Json,
    [Json EXCEPT !.error = "spending_limit_exceeded", !.details = LimitDetails(Challenge)] }

\* the Response the consumer's fetchImpl resolves with for what withAgon returned
Answer(resp, handlerBody) ==
  MResp(resp.status, Undef, TRUE, IF resp.kind = "handler" THEN handlerBody ELSE resp.body)

E2EInit ==
  /\ config \in {c \in PlatformConfigs : c.pricing.kind = "string" /\ ~c.pricing.nan}
  /\ clock = 0
  /\ bk = BackendInit
  /\ m = [r \in Req |-> Idle]
  /\ inflight = {}
  /\ nreq = NumReq
  /\ cl \in {c \in ClientConfigs : Truthy(c.apiKey)}
  /\ fetches = [k \in Call |-> NoFetch]
  /\ ncalls = NumSolo

\* the r-th dispatch of the call reaches the route wrapped by withAgon
withAgon_Receives(r) ==
  /\ Arrives(r)
  /\ r <= Len(Dispatched(1))
  /\ \E now \in clock..MaxClock, rnd \in 1..RandSpace :
       Begin(r, "withAgon", Dispatched(1)[r].headers,
             calculatePrice(config.pricing, FnThrow), now, rnd)
  /\ UNCHANGED <<config, bk, inflight, nreq>>
  /\ UNCHANGED cvars

\* the response withAgon returned to the first dispatch reaches fetch
fetch_GetsAnswer(k) ==
  /\ m[1].pc = "done"
  /\ \E body \in HandlerBodies, now \in clock..MaxClock, rnd \in 1..RandSpace :
       fetch_Receives(k, Answer(m[1].resp, body), now, rnd)

\* the response withAgon returned to the retry reaches handleSpendingLimitOverride
handleSpendingLimitOverride_GetsAnswer(k) ==
  /\ m[2].pc = "done"
  /\ \E body \in HandlerBodies :
       handleSpendingLimitOverride_Receives(k, Answer(m[2].resp, body))

E2ENext ==
  \/ \E k \in Call :
       \/ AgonClient_fetch(k)
       \/ fetch_TokenReturns(k)
       \/ fetch_GetsAnswer(k)
       \/ handleSpendingLimitOverride_Decides(k)
       \/ handleSpendingLimitOverride_TokenReturns(k)
       \/ handleSpendingLimitOverride_GetsAnswer(k)
  \/ \E r \in Req :
       \/ withAgon_Receives(r)
       \/ withAgon_AuthorizeReturns(r)
       \/ withAgon_HandlerThrows(r)
       \/ withAgon_HandlerReturns(r)
       \/ withAgon_SettleReturns(r)

SpecE2E == E2EInit /\ [][E2ENext]_vars


\* ======================= concurrent fetch calls against one withAgon route
\* every call of the run is made at once on one keyed client; the dispatch
\* of call k is inbound request k of the route
ConcurrentInit ==
  /\ config = [pricing |-> StrPrice(TRUE, FALSE, 10000), description |-> Undef,
               mimeType |-> Undef]
  /\ clock = 0
  /\ bk = BackendInit
  /\ m = [r \in Req |-> Idle]
  /\ inflight = {}
  /\ nreq = NumReq
  /\ cl = AgonClientNew("ak_live_1", FALSE, TRUE, FALSE)
  /\ fetches = [k \in Call |-> NoFetch]
  /\ ncalls = NumCalls

\* fetch(url) is called while earlier calls may still be running
AgonClient_fetchConcurrently(k) ==
  /\ k <= ncalls /\ fetches[k].pc = "idle"
  /\ fetches' = [fetches EXCEPT ![k] =
       [@ EXCEPT !.pc = "token", !.after = {j \in Call : fetches[j].pc = "done"},
                 !.init = NoHeaders, !.log = <<createAuthToken(cl, NoOpts)>>]]
  /\ UNCHANGED <<config, clock, bk, m, inflight, nreq, cl, ncalls>>

\* the dispatch of call r reaches the route
withAgon_ReceivesFrom(r) ==
  /\ r <= nreq /\ r \in Call /\ m[r].pc = "idle"
  /\ Len(Dispatched(r)) = 1
  /\ \E now \in clock..MaxClock, rnd \in 1..RandSpace :
       Begin(r, "withAgon", Dispatched(r)[1].headers,
             calculatePrice(config.pricing, FnThrow), now, rnd)
  /\ UNCHANGED <<config, bk, inflight, nreq>>
  /\ UNCHANGED cvars

\* the response the route returned to call k's dispatch reaches fetch
fetch_GetsOwnAnswer(k) ==
  /\ k \in Req /\ m[k].pc = "done"
  /\ \E now \in clock..MaxClock, rnd \in 1..RandSpace :
       fetch_Receives(k, Answer(m[k].resp, Json), now, rnd)

ConcurrentNext ==
  \/ \E k \in Call :
       \/ AgonClient_fetchConcurrently(k)
       \/ fetch_TokenReturns(k)
       \/ fetch_GetsOwnAnswer(k)
  \/ \E r \in Req :
       \/ withAgon_ReceivesFrom(r)
       \/ withAgon_AuthorizeReturns(r)
       \/ withAgon_HandlerThrows(r)
       \/ withAgon_HandlerReturns(r)
       \/ withAgon_SettleReturns(r)

SpecConcurrent == ConcurrentInit /\ [][ConcurrentNext]_vars

\* =================================== one transport call, one step at a time
\* AgonHttpClient.request of the consumer and AgonHttpClient.post of the
\* platform: the timer is set, fetch is awaited, the body is read, the result
\* is returned or thrown, and the finally block runs
TransportInit ==
  /\ config = [pricing |-> StrPrice(TRUE, FALSE, 10000), description |-> Undef,
               mimeType |-> Undef]
  /\ clock = 0
  /\ bk = BackendInit
  /\ m = [r \in Req |-> Idle]
  /\ inflight = {}
  /\ nreq = 0
  /\ cl = AgonClientNew("ak_live_1", FALSE, TRUE, FALSE)
  /\ fetches = [k \in Call |-> NoFetch]
  /\ ncalls = NumCalls

\* what the backend, or a gateway in front of it, may answer
TransportReplies ==
  { HttpReply(200, [Json EXCEPT !.status = "approved"]),
    HttpReply(500, Json),
    HttpReply(503, [Json EXCEPT !.message = "unavailable"]),
    InvalidKey,
    ErrorReply(429, "rate_limited", NoObj) }

ReturnsData == [kind |-> "data", status |-> 0, err |-> AgonError(0, Json)]

\* const timer = setTimeout(...); the request goes out
AgonHttpClient_request(k) ==
  /\ Starts(k)
  /\ \E api \in {"request", "post"} :
       fetches' = [fetches EXCEPT ![k] =
         [@ EXCEPT !.pc = "awaitFetch", !.api = api, !.timer = "armed",
                   !.log = <<Sent(api, "backend",
                                  IF api = "request" THEN RequestHeaders(cl.http)
                                  ELSE Merge(ContentType, OneHeader("Authorization", "Bearer pk")),
                                  NoBody)>>]]
  /\ UNCHANGED <<config, clock, bk, m, inflight, nreq, cl, ncalls>>

\* request_Ends with clearTimeout as the last statement of the try block
request_Ends_ClearInTry(k) ==
  /\ fetches[k].pc = "awaitFetch"
  /\ \E net \in NetOutcomes, reply \in TransportReplies :
       LET raw == Raw(net, reply)
           result == IF fetches[k].api = "post" THEN PlatformPost(raw) ELSE ClientRequest(raw)
       IN fetches' = Done([fetches EXCEPT ![k].raw = raw,
                                          ![k].timer = IF result.ok THEN "cleared" ELSE @],
                          k, IF result.ok THEN ReturnsData ELSE Throws(result.err))
  /\ UNCHANGED <<config, clock, bk, m, inflight, nreq, cl, ncalls>>

\* fetch settles or is aborted; try / catch gives the result; finally clears the timer
request_Ends(k) ==
  /\ fetches[k].pc = "awaitFetch"
  /\ \E net \in NetOutcomes, reply \in TransportReplies :
       LET raw == Raw(net, reply)
           result == IF fetches[k].api = "post" THEN PlatformPost(raw) ELSE ClientRequest(raw)
       IN fetches' = Done([fetches EXCEPT ![k].raw = raw, ![k].timer = "cleared"],
                          k, IF result.ok THEN ReturnsData ELSE Throws(result.err))
  /\ UNCHANGED <<config, clock, bk, m, inflight, nreq, cl, ncalls>>

TransportNext ==
  \E k \in Call :
    \/ AgonHttpClient_request(k)
    \/ request_Ends(k)

SpecTransport == TransportInit /\ [][TransportNext]_vars

\* ======================================= the API key of the client over time
\* register, setApiKey, rotateKey and revokeKey in any order on one client
RotatedKey == "ak_rotated_3"

\* POST /keys/rotate: the key of the call is revoked and a new one issued
BackendRotateKey(b, headers) ==
  IF Get(headers, CONSUMER_KEY) \notin b.keys
  THEN [bk |-> b, reply |-> InvalidKey]
  ELSE [bk |-> [b EXCEPT !.keys = (@ \ {Get(headers, CONSUMER_KEY)}) \cup {RotatedKey}],
        reply |-> HttpReply(200, [Json EXCEPT !.api_key = RotatedKey])]

\* POST /keys/revoke: the key of the call is revoked
BackendRevokeKey(b, headers) ==
  IF Get(headers, CONSUMER_KEY) \notin b.keys
  THEN [bk |-> b, reply |-> InvalidKey]
  ELSE [bk |-> [b EXCEPT !.keys = @ \ {Get(headers, CONSUMER_KEY)}],
        reply |-> HttpReply(200, Json)]

KeysInit ==
  /\ config = [pricing |-> StrPrice(TRUE, FALSE, 10000), description |-> Undef,
               mimeType |-> Undef]
  /\ clock = 0
  /\ bk = BackendInit
  /\ m = [r \in Req |-> Idle]
  /\ inflight = {}
  /\ nreq = 0
  /\ cl \in ClientConfigs
  /\ fetches = [k \in Call |-> NoFetch]
  /\ ncalls = NumCalls

\* rotateKey / revokeKey: requireAuth, then the POST
AgonClient_keyCall(k, api) ==
  /\ Starts(k)
  /\ IF ~Truthy(cl.apiKey)
     THEN fetches' = [fetches EXCEPT ![k] =
            [@ EXCEPT !.pc = "done", !.api = api, !.result = Throws(NoApiKey)]]
     ELSE fetches' = [fetches EXCEPT ![k] =
            [@ EXCEPT !.pc = api, !.api = api,
                      !.log = <<Sent(api, "backend", RequestHeaders(cl.http), NoBody)>>]]
  /\ UNCHANGED <<config, clock, bk, m, inflight, nreq, cl, ncalls>>

AgonClient_rotateKey(k) == AgonClient_keyCall(k, "rotateKey")

AgonClient_revokeKey(k) == AgonClient_keyCall(k, "revokeKey")

\* this.apiKey = result.api_key; this.http.setApiKey(result.api_key)
rotateKey_Returns(k) ==
  /\ fetches[k].pc = "rotateKey"
  /\ \E net \in NetOutcomes :
       LET b == BackendRotateKey(bk, Last(fetches[k].log).headers)
           result == ClientRequest(Raw(net, b.reply))
       IN /\ bk' = IF Processed(net) THEN b.bk ELSE bk
          /\ IF result.ok
             THEN /\ cl' = setApiKey(cl, result.data.api_key)
                  /\ Finish(k, [ReturnsToken EXCEPT !.kind = "apiKey"])
             ELSE /\ UNCHANGED cl
                  /\ Finish(k, Throws(result.err))
  /\ UNCHANGED <<config, clock, m, inflight, nreq, ncalls>>

\* this.apiKey = null, and nothing else
revokeKey_Returns(k) ==
  /\ fetches[k].pc = "revokeKey"
  /\ \E net \in NetOutcomes :
       LET b == BackendRevokeKey(bk, Last(fetches[k].log).headers)
           result == ClientRequest(Raw(net, b.reply))
       IN /\ bk' = IF Processed(net) THEN b.bk ELSE bk
          /\ IF result.ok
             THEN /\ cl' = [cl EXCEPT !.apiKey = Undef]
                  /\ Finish(k, [ReturnsToken EXCEPT !.kind = "void"])
             ELSE /\ UNCHANGED cl
                  /\ Finish(k, Throws(result.err))
  /\ UNCHANGED <<config, clock, m, inflight, nreq, ncalls>>

KeysNext ==
  \/ AgonClient_setApiKey
  \/ \E k \in Call :
       \/ AgonClient_register(k)
       \/ register_Returns(k)
       \/ AgonClient_rotateKey(k)
       \/ rotateKey_Returns(k)
       \/ AgonClient_revokeKey(k)
       \/ revokeKey_Returns(k)

SpecKeys == KeysInit /\ [][KeysNext]_vars

\* ============================== withAgon when every awaited call comes back
\* the requests of SpecMerchant that enter withAgon; each authorize, consume
\* and release call ends, and the handler returns or throws
WithAgonNext ==
  \E r \in Req :
    \/ withAgon_Start(r)
    \/ withAgon_AuthorizeReturns(r)
    \/ withAgon_HandlerThrows(r)
    \/ withAgon_HandlerReturns(r)
    \/ withAgon_SettleReturns(r)

AwaitedCallsEnd ==
  \A r \in Req :
    /\ WF_vars(withAgon_AuthorizeReturns(r))
    /\ WF_vars(withAgon_HandlerThrows(r) \/ withAgon_HandlerReturns(r))
    /\ WF_vars(withAgon_SettleReturns(r))

SpecWithAgonLive == MInit /\ [][WithAgonNext]_vars /\ AwaitedCallsEnd

\* ============================================================== properties
SettleOps == {"consume", "release"}

\* the positions of the consume / release calls made for request r
SettleCalls(r) == {i \in 1..Len(m[r].log) : m[r].log[i].op \in SettleOps}

HandlerInvoked(r) == \E i \in 1..Len(m[r].log) : m[r].log[i].op = "handler"

Responded(r) == m[r].pc \in {"done", "replied"}

NoTokenHeader(wire) == \A n \in DOMAIN wire : toLowerCase(n) # toLowerCase(CONSUMER_TOKEN)

\* a 402 whose body is the payment-required body for this price
IsPaymentRequired(resp, price) ==
  /\ resp.kind = "json"
  /\ resp.status = 402
  /\ resp.body.error = "payment_required"
  /\ {"price", "currency", "description", "mime_type", "instructions"}
       \subseteq DOMAIN resp.body.payment_info
  /\ resp.body.payment_info.price = price
  /\ resp.body.payment_info.currency = "USDC"
  /\ resp.body.payment_info.description # Undef
  /\ resp.body.payment_info.instructions # Undef

\* C1: in withAgon, once authorize was approved, the calls that settle the
\* reservation are for this request's reservation id and never more than one;
\* once the handler has returned or thrown there is exactly one, a consume or
\* a release.
C1_ExactlyOneSettlement ==
  \A r \in Req :
    (m[r].entry = "withAgon" /\ m[r].authResult.status = "approved") =>
      /\ Cardinality(SettleCalls(r)) <= 1
      /\ \A i \in SettleCalls(r) : m[r].log[i].reservation_id = m[r].resId
      /\ m[r].handler # "none" => Cardinality(SettleCalls(r)) = 1

C1_Witness ==
  \E r \in Req :
    /\ m[r].entry = "withAgon" /\ m[r].pc = "done" /\ m[r].handler = "returned"
    /\ \E i \in SettleCalls(r) : m[r].log[i].op = "consume"

\* C2: a request that agonProxy answered after an approved authorize has had
\* a consume or a release call made for its reservation.
C2_ProxyReservationResolved ==
  \A r \in Req :
    (m[r].entry = "agonProxy" /\ m[r].pc = "done" /\ m[r].authResult.status = "approved") =>
      SettleCalls(r) # {}

\* the positions in call k's log of what it sent with operation op
SentOps(k, op) == {i \in 1..Len(fetches[k].log) : fetches[k].log[i].op = op}

\* the header names whose value a dispatch sets differently from the caller's
SetBySdk(k, i) ==
  LET theirs == Headers(fetches[k].init)
      sent == fetches[k].log[i].headers
  IN {n \in DOMAIN sent : n \notin DOMAIN theirs \/ sent[n] # theirs[n]}

C4_OneOverrideRound ==
  \A k \in Call :
    /\ Cardinality(SentOps(k, "onLimitExceeded")) <= 1
    /\ Cardinality(SentOps(k, "dispatch")) <= 2
    /\ Cardinality(SentOps(k, "create-token")) <= 2
    /\ Cardinality(SentOps(k, "dispatch")) = 2 =>
         /\ Last(fetches[k].log).op = "dispatch"
         /\ fetches[k].pc \in {"retry", "done"}
         /\ (fetches[k].pc = "done" /\ fetches[k].res = 402) =>
              (fetches[k].result.kind = "AgonError" /\ fetches[k].result.err.statusCode = 402)

C4_Witness ==
  \E k \in Call :
    /\ Cardinality(SentOps(k, "dispatch")) = 2
    /\ Cardinality(SentOps(k, "onLimitExceeded")) = 1
    /\ fetches[k].pc = "done" /\ fetches[k].res = 402
    /\ fetches[k].result.err.code = "spending_limit_exceeded"

\* C5: when fetch is made a second time with the same arguments after the
\* first call has ended, and both calls went through POST /proxy, the
\* backend holds at most one charge.
C5_RetryChargesOnce ==
  (/\ fetches[1].pc = "done" /\ fetches[2].pc = "done"
   /\ 1 \in fetches[2].after
   /\ fetches[1].init = fetches[2].init
   /\ SentOps(1, "proxy") # {} /\ SentOps(2, "proxy") # {}) =>
    Len(bk.charges) <= 1

\* the reservations the ledger holds as consumed
Consumed == {i \in 1..Len(bk.res) : bk.res[i].status = "consumed"}

\* C6: with the consumer making one fetch call against a route wrapped by
\* withAgon, the ledger never holds more than one consumed reservation,
\* whether or not the override retry is taken.
C6_AtMostOneConsumed ==
  Cardinality(Consumed) <= 1

C6_Witness ==
  /\ fetches[1].pc = "done"
  /\ Len(Dispatched(1)) = 2
  /\ fetches[1].result.kind = "response"
  /\ Len(bk.res) = 2
  /\ Cardinality(Consumed) = 1

C8_DeniedIs402 ==
  \A r \in Req :
    m[r].authResult.status = "denied" =>
      /\ Responded(r)
      /\ IsPaymentRequired(m[r].resp, m[r].price.value)
      /\ m[r].resp.body.denial_reason = m[r].authResult.reason
      /\ ~HandlerInvoked(r)
      /\ SettleCalls(r) = {}

C8_Witness ==
  \E r \in Req :
    /\ m[r].pc = "done"
    /\ m[r].authResult = [status |-> "denied", reason |-> "spending_limit_exceeded"]
    /\ m[r].resp.body.denial_reason = "spending_limit_exceeded"

\* C9: in withAgon, when the handler threw after an approval, the one call
\* that follows is a release of this request's reservation id and the answer
\* is the 500 internal_error, also when that release call failed.
C9_ThrowReleasesAnd500 ==
  \A r \in Req :
    (m[r].entry = "withAgon" /\ m[r].handler = "threw") =>
      /\ m[r].authResult.status = "approved"
      /\ \E i \in SettleCalls(r) : m[r].log[i] = release(m[r].resId)
      /\ \A i \in SettleCalls(r) : m[r].log[i].op = "release"
      /\ m[r].resp.kind = "json"
      /\ m[r].resp.status = 500
      /\ m[r].resp.body.error = "internal_error"

C9_Witness ==
  \E r \in Req :
    /\ m[r].entry = "withAgon" /\ m[r].handler = "threw" /\ m[r].pc = "done"
    /\ m[r].settled = "rejected"
    /\ m[r].resp.status = 500

\* the handler's response status once it has completed without a throw
Completed(r) ==
  /\ m[r].authResult.status = "approved"
  /\ m[r].handler # "threw"
  /\ m[r].resp.kind = "handler"

\* C10 as stated: consume exactly for a 200-299 status, release otherwise.
C10_ConsumeIff2xx ==
  \A r \in Req :
    Completed(r) =>
      \A i \in SettleCalls(r) :
        m[r].log[i].op = "consume" <=> (m[r].resp.status >= 200 /\ m[r].resp.status <= 299)

\* C10 amended: after an approval, once the handler has completed, a
\* settlement call is made, and it is a consume exactly when the response
\* status is below 400 and a release for every status from 400 up.
C10_ConsumeIffBelow400 ==
  \A r \in Req :
    Completed(r) =>
      /\ SettleCalls(r) # {} \/ (m[r].entry = "agonPlugin" /\ m[r].pc = "replied")
      /\ \A i \in SettleCalls(r) :
           /\ m[r].log[i].reservation_id = m[r].resId
           /\ m[r].log[i].op = "consume" <=> m[r].resp.status < 400

C10_Witness ==
  \E r \in Req :
    /\ Completed(r) /\ m[r].resp.status = 302
    /\ \E i \in SettleCalls(r) : m[r].log[i].op = "consume"

\* ------------------------------------------------------------------ C11
AuthorizeCalls(r) == {i \in 1..Len(m[r].log) : m[r].log[i].op = "authorize"}

\* C11: for one inbound request the interceptor sends at most one authorize
\* request, whatever its outcome (approved, denied, timed out, unreachable,
\* unreadable): one is sent iff the request carries a token and a price was
\* computed; it is the first thing sent and it is never sent again.
C11_OneAuthorizePerRequest ==
  \A r \in Req :
    /\ Cardinality(AuthorizeCalls(r)) <= 1
    /\ AuthorizeCalls(r) \subseteq {1}
    /\ m[r].authResult.status \in {"approved", "denied", "threw"}
         => Cardinality(AuthorizeCalls(r)) = 1

C11_Witness ==
  \E r \in Req :
    /\ Responded(r)
    /\ m[r].authResult.status = "threw"
    /\ Cardinality(AuthorizeCalls(r)) = 1

\* ------------------------------------------------------------------ C12
\* C12 as stated: any two distinct inbound requests that were authorized
\* were authorized with different request_ids.
C12_DistinctRequestIds ==
  \A r1, r2 \in Req :
    (r1 # r2 /\ AuthorizeCalls(r1) # {} /\ AuthorizeCalls(r2) # {})
      => m[r1].log[1].request_id # m[r2].log[1].request_id

\* ------------------------------------------------------------------ C13
\* the operations of a call, in the order they were made
Ops(k) == [i \in 1..Len(fetches[k].log) |-> fetches[k].log[i].op]

\* C13: when the merchant's first response has a status other than 402,
\* fetch returns that response after exactly one token request and exactly
\* one dispatch: no callback, no signing, no POST /proxy.
C13_Non402ReturnedAsIs ==
  \A k \in Call :
    (fetches[k].first.kind = "response" /\ fetches[k].first.status # 402)
      => /\ fetches[k].pc = "done"
         /\ fetches[k].result.kind = "response"
         /\ fetches[k].result.status = fetches[k].first.status
         /\ Ops(k) = <<"create-token", "dispatch">>
         /\ fetches[k].decision = Undef
         /\ fetches[k].override = NoObj

C13_Witness ==
  \E k \in Call :
    /\ fetches[k].first.kind = "response" /\ fetches[k].first.status = 500
    /\ fetches[k].result.kind = "response" /\ fetches[k].result.status = 500

\* ------------------------------------------------------------------ C14
\* the first answer was a 402 without a PAYMENT-REQUIRED header
NativeDenial(k) ==
  /\ fetches[k].first.kind = "response"
  /\ fetches[k].first.status = 402
  /\ ~Truthy(fetches[k].first.paymentRequired)

\* a denial body that says: spending limit exceeded, override available
Recoverable(body) ==
  LET details == IF body.details # NoObj THEN body.details ELSE body.payment_info
  IN /\ body.error = "spending_limit_exceeded"
     /\ "override_available" \in DOMAIN details
     /\ details.override_available = TRUE

\* C14: on a 402 without a PAYMENT-REQUIRED header the spending-limit
\* callback is invoked exactly when the body parses to a denial with code
\* spending_limit_exceeded and override_available true and a callback is
\* configured; otherwise the call ends with the 402 denial raised as an
\* AgonError and nothing was done beyond the first token and dispatch.
C14_CallbackOnlyWhenRecoverable ==
  \A k \in Call :
    NativeDenial(k) =>
      LET first == fetches[k].first
          ok == first.parseable /\ Recoverable(first.body) /\ cl.onLimitExceeded
      IN /\ SentOps(k, "onLimitExceeded") # {} => ok
         /\ ok => (Len(fetches[k].log) >= 3 /\ Ops(k)[3] = "onLimitExceeded")
         /\ ~ok =>
              /\ fetches[k].pc = "done"
              /\ fetches[k].result.kind = "AgonError"
              /\ fetches[k].result.err.statusCode = 402
              /\ fetches[k].result.err.code =
                   IF first.parseable
                   THEN Coalesce(first.body.error, "insufficient_balance")
                   ELSE "insufficient_balance"
              /\ Ops(k) = <<"create-token", "dispatch">>
              /\ fetches[k].override = NoObj

\* a denial with override_available false and a callback configured
C14_Witness ==
  \E k \in Call :
    /\ NativeDenial(k) /\ cl.onLimitExceeded
    /\ fetches[k].first.body.error = "spending_limit_exceeded"
    /\ "override_available" \in DOMAIN fetches[k].first.body.details
    /\ fetches[k].first.body.details.override_available = FALSE
    /\ fetches[k].result.kind = "AgonError"
    /\ fetches[k].result.err.code = "spending_limit_exceeded"

\* ------------------------------------------------------------------ C15
\* the callback settled without approving, or the denial has no challenge
Declined(k) ==
  \/ fetches[k].decision = "reject"
  \/ /\ fetches[k].decision = "approve"
     /\ ~Truthy(Get(fetches[k].error.details, "sign_message"))

\* C15: in the override step, when the callback's decision is not approve,
\* or the denial carries no challenge string, the call raises the original
\* denial error; nothing is signed, no second token is requested and no
\* retry is dispatched.
C15_DeclineRaisesOriginal ==
  \A k \in Call :
    Declined(k) =>
      /\ fetches[k].pc = "done"
      /\ fetches[k].result = Throws(fetches[k].error)
      /\ NativeDenial(k) => fetches[k].result.err = PaymentError(fetches[k].first.body)
      /\ SentOps(k, "signOverride") = {}
      /\ Cardinality(SentOps(k, "create-token")) = 1
      /\ Cardinality(SentOps(k, "dispatch")) = 1
      /\ Cardinality(SentOps(k, "proxy")) <= 1
      /\ Last(fetches[k].log).op = "onLimitExceeded"
      /\ fetches[k].override = NoObj

\* approved, but the denial has no challenge string
C15_Witness ==
  \E k \in Call :
    /\ fetches[k].decision = "approve" /\ NativeDenial(k)
    /\ ~Truthy(Get(fetches[k].error.details, "sign_message"))
    /\ fetches[k].result = Throws(PaymentError(fetches[k].first.body))

\* ------------------------------------------------------------------ C16
\* the callback approved and the denial carries a challenge string
Approves(k) ==
  /\ fetches[k].decision = "approve"
  /\ Truthy(Get(fetches[k].error.details, "sign_message"))

\* C16: when the callback approves a native denial that carries a challenge,
\* the call signs exactly that challenge string, then requests a new token,
\* which differs from the first, then dispatches one retry that carries the
\* new token, the signature and the signed message, all in that order and
\* each at most once; it returns the retry's response when its status is
\* not 402.
C16_ApproveSignsThenRetries ==
  \A k \in Call :
    (Approves(k) /\ NativeDenial(k)) =>
      LET log == fetches[k].log
          details == IF fetches[k].first.body.details # NoObj
                     THEN fetches[k].first.body.details
                     ELSE fetches[k].first.body.payment_info
          challenge == details.sign_message
          token(i) == Get(log[i].headers, toLowerCase(CONSUMER_TOKEN))
      IN /\ Len(log) >= 4 /\ Len(log) <= 6
         /\ [i \in 1..4 |-> log[i].op]
              = <<"create-token", "dispatch", "onLimitExceeded", "signOverride">>
         /\ log[4].body.message = challenge
         /\ fetches[k].override # NoObj =>
              /\ Len(log) >= 5 /\ log[5].op = "create-token"
              /\ log[5].body = log[1].body
         /\ Len(log) = 6 =>
              /\ log[6].op = "dispatch" /\ log[6].to = "merchant"
              /\ token(6) # token(2)
              /\ token(6) \in Tokens /\ bk.tokens[token(6)] # "unissued"
              /\ Get(log[6].headers, toLowerCase(OVERRIDE_SIG)) = fetches[k].override.signature
              /\ Get(log[6].headers, toLowerCase(OVERRIDE_MSG)) = challenge
              /\ fetches[k].pc \in {"retry", "done"}
              /\ (fetches[k].pc = "done" /\ fetches[k].res \notin {0, 402})
                   => fetches[k].result = Returns(fetches[k].res)

\* the retry was dispatched and answered 200
C16_Witness ==
  \E k \in Call :
    /\ Approves(k) /\ NativeDenial(k)
    /\ Len(fetches[k].log) = 6
    /\ fetches[k].pc = "done" /\ fetches[k].res = 200
    /\ fetches[k].result = Returns(200)

\* ------------------------------------------------------------------ C17
\* the first answer was a 402 with a PAYMENT-REQUIRED header
X402Challenge(k) ==
  /\ fetches[k].first.kind = "response"
  /\ fetches[k].first.status = 402
  /\ Truthy(fetches[k].first.paymentRequired)

\* C17: when the first response is a 402 with a PAYMENT-REQUIRED header the
\* call takes the passthrough path: the third thing it does is POST /proxy
\* to the backend, with the base64 of the challenge and a request_id made in
\* this call; the body of the 402 is not read as a native denial (the
\* callback runs only on an error of POST /proxy); the merchant is not
\* dispatched to again and no second token is requested; a response the
\* call returns has the status the proxy result reports for the merchant.
C17_X402GoesThroughProxy ==
  \A k \in Call :
    X402Challenge(k) =>
      LET log == fetches[k].log
      IN /\ Len(log) >= 3
         /\ [i \in 1..3 |-> log[i].op] = <<"create-token", "dispatch", "proxy">>
         /\ log[3].to = "backend"
         /\ fetches[k].first.paymentRequired = "x402-challenge"
              => log[3].body.payment_required = "eDQwMi1jaGFsbGVuZ2U="
         /\ log[3].body.request_id.pfx = "proxy"
         /\ log[3].body.request_id = fetches[k].requestId
         /\ log[3].body.override = NoObj
         /\ Cardinality(SentOps(k, "dispatch")) = 1
         /\ Cardinality(SentOps(k, "create-token")) = 1
         /\ fetches[k].error.statusCode # 0 => fetches[k].error # PaymentError(fetches[k].first.body)
         /\ (fetches[k].pc = "done" /\ fetches[k].result.kind = "response") =>
              \E i \in 1..Len(bk.charges) :
                /\ bk.charges[i].request_id = fetches[k].requestId
                /\ fetches[k].result.status = bk.charges[i].upstream

\* the proxy paid and the merchant then failed: the call returns the 500
C17_Witness ==
  \E k \in Call :
    /\ X402Challenge(k)
    /\ fetches[k].pc = "done"
    /\ fetches[k].result.kind = "response" /\ fetches[k].result.status = 500
    /\ SentOps(k, "onLimitExceeded") = {}

\* ------------------------------------------------------------------ C18
\* the payment headers, as Headers.forEach names them
PaymentHeaders ==
  {toLowerCase(CONSUMER_TOKEN), toLowerCase(CONSUMER_KEY), toLowerCase(OVERRIDE_SIG),
   toLowerCase(OVERRIDE_MSG), "payment-signature", "x-payment"}

\* C18 as stated: the headers a POST /proxy asks the backend to forward are
\* the caller's headers with every payment header removed.
C18_ProxyForwardsNoPaymentHeaders ==
  \A k \in Call : \A i \in SentOps(k, "proxy") :
    LET forwarded == fetches[k].log[i].body.headers
    IN /\ DOMAIN forwarded \cap PaymentHeaders = {}
       /\ \A n \in DOMAIN Headers(fetches[k].init) \ PaymentHeaders :
            n \in DOMAIN forwarded /\ forwarded[n] = Headers(fetches[k].init)[n]

\* ------------------------------------------------------------------ C19
\* C19: a createAuthToken or fetch call made while no API key is set fails
\* at once with AgonError 401 invalid_api_key: nothing is sent, the backend
\* is not touched.
C19_NoKeyFailsBeforeNetwork ==
  [][\A k \in Call :
       (/\ fetches[k].pc = "idle" /\ fetches'[k].pc # "idle"
        /\ fetches'[k].api \in {"fetch", "createAuthToken"}
        /\ ~Truthy(cl.apiKey))
         => /\ fetches'[k].pc = "done"
            /\ fetches'[k].result.kind = "AgonError"
            /\ fetches'[k].result.err.statusCode = 401
            /\ fetches'[k].result.err.code = "invalid_api_key"
            /\ fetches'[k].log = <<>>
            /\ bk' = bk]_vars

C19_Witness ==
  \E k \in Call :
    /\ ~Truthy(cl.apiKey)
    /\ fetches[k].api = "createAuthToken"
    /\ fetches[k].pc = "done" /\ fetches[k].log = <<>>
    /\ fetches[k].result = Throws(NoApiKey)

\* ------------------------------------------------------------------ C20
\* C20 as stated: the ttl a create-token request carries is within 1..300.
C20_TtlWithinBounds ==
  \A k \in Call : \A i \in SentOps(k, "create-token") :
    fetches[k].log[i].body.ttl >= 1 /\ fetches[k].log[i].body.ttl <= 300

\* ------------------------------------------------------------------ C21
\* the authentication schemes a request to the backend carries
AuthSchemes(headers) ==
  (IF CONSUMER_KEY \in DOMAIN headers THEN {"key"} ELSE {})
    \cup (IF {"X-AGON-WALLET", "X-AGON-SIGNATURE", "X-AGON-TIMESTAMP"} \subseteq DOMAIN headers
          THEN {"wallet"} ELSE {})

\* C21 as stated: every request the consumer transport sends to the backend
\* carries exactly one authentication scheme, register included.
C21_ExactlyOneAuthScheme ==
  \A k \in Call : \A i \in 1..Len(fetches[k].log) :
    fetches[k].log[i].to = "backend"
      => Cardinality(AuthSchemes(fetches[k].log[i].headers)) = 1

\* ------------------------------------------------------------------ C22
\* C22 as stated, for the consumer transport: the 504 timeout error is raised
\* only when the client-side timeout fired, the 502 connectivity error only
\* when the backend could not be reached, and whenever the backend returned
\* a failure response the error carries that response's status.
C22_TransportErrorsDistinct ==
  \A k \in Call :
    LET raw == fetches[k].raw
        err == fetches[k].result.err
    IN (raw.kind # "none" /\ fetches[k].result.kind = "AgonError") =>
         /\ (err.statusCode = 504 /\ err.message = "Agon API request timed out")
              => raw.kind = "abort"
         /\ (err.statusCode = 502 /\ err.message = "Failed to reach Agon API at")
              => raw.kind = "neterr"
         /\ (raw.kind = "response" /\ ~ResOk(raw.status))
              => err.statusCode = raw.status

\* ------------------------------------------------------------------ C23
\* C23 as stated: every backend call of a fetch carries the credential that
\* was current when the fetch started, whatever setApiKey did meanwhile.
C23_InflightKeepsCredential ==
  \A k \in Call : \A i \in 1..Len(fetches[k].log) :
    (fetches[k].api = "fetch" /\ fetches[k].log[i].to = "backend")
      => Get(fetches[k].log[i].headers, CONSUMER_KEY)
           = Get(fetches[k].log[1].headers, CONSUMER_KEY)

\* ------------------------------------------------------------------ C24
\* the tokens call k attached to what it dispatched
TokensOf(k) ==
  {Get(fetches[k].log[i].headers, toLowerCase(CONSUMER_TOKEN)) : i \in SentOps(k, "dispatch")}

ErrorCode ==
  {"account_not_found", "account_already_exists", "wallet_address_invalid",
   "insufficient_balance", "insufficient_available_balance", "withdrawal_exceeds_available",
   "deposit_tx_not_found", "deposit_tx_invalid_destination", "deposit_tx_invalid_mint",
   "deposit_tx_already_credited", "deposit_tx_not_confirmed",
   "invalid_api_key", "api_key_revoked", "api_key_not_found",
   "platform_not_found", "platform_inactive", "invalid_platform_key",
   "reservation_not_found", "reservation_already_consumed", "reservation_already_released",
   "reservation_expired", "duplicate_request_id",
   "refill_not_active", "refill_monthly_limit_reached", "refill_delegation_insufficient",
   "refill_wallet_insufficient",
   "proxy_payment_required_invalid", "proxy_merchant_unreachable", "proxy_x402_payment_failed",
   "proxy_unsupported_network", "proxy_disabled", "proxy_domain_blocked",
   "spending_limit_exceeded", "spending_override_invalid", "spending_override_expired",
   "spending_override_signature_mismatch",
   "validation_error", "rate_limited", "internal_error"}

\* C25 as stated: every AgonError a fetch call raises has a code of the
\* closed ErrorCode set.
C25_RaisedCodesAreErrorCodes ==
  \A k \in Call :
    (fetches[k].api = "fetch" /\ fetches[k].result.kind = "AgonError")
      => fetches[k].result.err.code \in ErrorCode

\* ------------------------------------------------------------------ C26
\* C26 as stated: in every entry point a failed price computation ends the
\* request with the 500 internal_error response, with nothing sent to the
\* backend and the handler not invoked.
C26_PriceFailureIs500 ==
  \A r \in Req :
    (m[r].pc # "idle" /\ ~m[r].price.ok /\ m[r].resp.kind # "null")
      => /\ m[r].resp = PriceFailed
         /\ m[r].log = <<>>

\* ------------------------------------------------------------------ C27
\* the request got as far as computing its price
Priced(r) == m[r].pc # "idle" /\ m[r].resp.kind # "null"

TokenKeys(headers) == {n \in DOMAIN headers : toLowerCase(n) = toLowerCase(CONSUMER_TOKEN)}

\* C28 as stated: applied to the headers of a request as they were sent,
\* extractConsumerToken returns the value held under X-AGON-TOKEN in any
\* letter case, and returns null only when there is no such header.
C28_TokenFoundInAnyCase ==
  \A r \in Req :
    m[r].pc # "idle" =>
      /\ \A n \in TokenKeys(m[r].wire) :
           Truthy(m[r].wire[n]) => extractConsumerToken(m[r].wire) = m[r].wire[n]
      /\ extractConsumerToken(m[r].wire) = Undef => TokenKeys(m[r].wire) = {}

\* ------------------------------------------------------------------ C29
\* the value a request was sent with under a header name, in any letter case
SentUnder(r, name) == Get(HeaderObj(m[r].wire), toLowerCase(name))

BothOverrideHeaders(r) ==
  Truthy(SentUnder(r, OVERRIDE_SIG)) /\ Truthy(SentUnder(r, OVERRIDE_MSG))

\* C29: an override is extracted only when the signature header and the
\* message header are both present and non-empty, and then it holds their two
\* values; the body posted to /authorize has an override field exactly when
\* one was extracted.
C29_OverrideNeedsBothHeaders ==
  \A r \in Req :
    m[r].pc # "idle" =>
      LET override == extractOverride(HeaderObj(m[r].wire))
      IN /\ (override # NoObj) <=> BothOverrideHeaders(r)
         /\ override # NoObj =>
              override = [signature |-> SentUnder(r, OVERRIDE_SIG),
                          message |-> SentUnder(r, OVERRIDE_MSG)]
         /\ \A i \in 1..Len(m[r].log) :
              m[r].log[i].op = "authorize" =>
                /\ (m[r].log[i].override # NoObj) <=> BothOverrideHeaders(r)
                /\ m[r].log[i].override = override

\* an authorize call was posted without an override field for a request that
\* came with a token and the signature header, but no message header
C29_Witness ==
  \E r \in Req :
    /\ Truthy(SentUnder(r, OVERRIDE_SIG)) /\ ~Truthy(SentUnder(r, OVERRIDE_MSG))
    /\ Len(m[r].log) >= 1 /\ m[r].log[1].op = "authorize"
    /\ m[r].log[1].override = NoObj
    /\ extractOverride(HeaderObj(m[r].wire)) = NoObj

\* ------------------------------------------------------------------ C30
\* C30: the step in which withAgon's consume or release call ends, whatever
\* its outcome (answered, rejected by the backend, timed out, backend not
\* reached), leaves the response the handler returned as it was, and that is
\* the response withAgon returns; a response that is out is never changed by
\* a settlement call that ends later.
C30_SettleFailureNotSurfaced ==
  [][\A r \in Req :
       /\ (m[r].entry = "withAgon" /\ m[r].handler = "returned" /\ m[r].pc = "settling") =>
            /\ m[r].resp.kind = "handler"
            /\ m'[r].resp = m[r].resp
            /\ m'[r].pc \in {"settling", "done"}
       /\ m[r].pc = "done" => m'[r].resp = m[r].resp /\ m'[r].pc = "done"]_vars

\* withAgon returned the handler's 200 although the consume call failed
C30_Witness ==
  \E r \in Req :
    /\ m[r].entry = "withAgon" /\ m[r].handler = "returned" /\ m[r].pc = "done"
    /\ m[r].settled = "rejected"
    /\ Last(m[r].log) = consume(m[r].resId)
    /\ m[r].resp = HandlerResp(200)

\* ------------------------------------------------------------------ C31
\* C31 as stated: a create-token request carries the budget createAuthToken
\* was given, and carries none when none was given, as in fetch.
C31_BudgetForwarded ==
  \A k \in Call : \A i \in SentOps(k, "create-token") :
    fetches[k].log[i].body.budget =
      (IF fetches[k].api = "createAuthToken" THEN fetches[k].opts.budget ELSE NoAmount)

\* ------------------------------------------------------------------ C32
\* C32 as stated: when withAgon answered the call's dispatch with its 402 for
\* an authorize denied with reason R, the AgonError fetch raises from that
\* response has R as its code, so that a spending_limit_exceeded denial is a
\* spending-limit denial to the orchestrator.
C32_DenialReasonReachesCaller ==
  \A k \in Call :
    (/\ fetches[k].api = "fetch" /\ fetches[k].pc = "done"
     /\ fetches[k].result.kind = "AgonError"
     /\ fetches[k].first.status = 402
     /\ Len(Dispatched(k)) = 1
     /\ m[1].pc = "done" /\ m[1].authResult.status = "denied")
      => /\ fetches[k].result.err.code = m[1].authResult.reason
         /\ m[1].authResult.reason = "spending_limit_exceeded"
              => isSpendingLimitExceeded(fetches[k].result.err)

\* ------------------------------------------------------------------ C33
\* C33 as stated: an approved agonMiddleware request whose response has ended
\* has led to exactly one settlement call, however often res.end was invoked.
C33_OneSettlementPerRequest ==
  \A r \in Req :
    (m[r].entry = "agonMiddleware" /\ m[r].authResult.status = "approved")
      => /\ Cardinality(SettleCalls(r)) <= 1
         /\ m[r].ends > 0 => Cardinality(SettleCalls(r)) = 1

\* ------------------------------------------------------------------ C34
\* the settlement calls of a request that were started and not awaited
Unawaited(r) == {x \in inflight : x.r = r}

\* C34: when authorize ended otherwise than with an approval, the handler is
\* never invoked and no consume or release is sent; a denial is answered with
\* the 402, an error authorize threw with that error's status and its JSON.
C34_NotApprovedNeverServes ==
  \A r \in Req :
    m[r].authResult.status \in {"denied", "threw"} =>
      /\ Responded(r)
      /\ ~HandlerInvoked(r)
      /\ SettleCalls(r) = {} /\ Unawaited(r) = {}
      /\ m[r].resId = NoRes
      /\ m[r].resp.kind = "json"
      /\ m[r].authResult.status = "denied" => m[r].resp.status = 402
      /\ m[r].authResult.status = "threw" =>
           /\ m[r].resp.status = m[r].authErr.statusCode
           /\ m[r].resp.status \in {402, 500, 502, 504}
           /\ m[r].resp.body = toJSON(m[r].authErr)

\* the authorize call of an agonMiddleware request timed out: 504, no handler
C34_Witness ==
  \E r \in Req :
    /\ m[r].entry = "agonMiddleware" /\ m[r].pc = "done"
    /\ m[r].authResult.status = "threw"
    /\ m[r].authErr.statusCode = 504
    /\ m[r].resp.status = 504 /\ m[r].resp.body.error = "internal_error"
    /\ ~HandlerInvoked(r)

\* ------------------------------------------------------------------ C35
\* what fetch() handed the transport is a failure of the call
TransportFailure(raw) ==
  raw.kind \in {"abort", "neterr"} \/ ~raw.parseable \/ ~ResOk(raw.status)

\* C35: a transport call that failed (non-2xx answer with or without an error
\* body, unparseable body, timeout, network failure) ended with an AgonError
\* of status 4xx / 5xx and a code, never with another exception, and a call
\* that did not fail returned; in both cases the timer is cleared at the end.
C35_TransportRaisesAgonErrorOnly ==
  \A k \in Call :
    /\ fetches[k].pc = "awaitFetch" => fetches[k].timer = "armed"
    /\ fetches[k].pc = "done" =>
         /\ fetches[k].timer = "cleared"
         /\ IF TransportFailure(fetches[k].raw)
            THEN /\ fetches[k].result.kind = "AgonError"
                 /\ fetches[k].result.err.statusCode \in 400..599
                 /\ fetches[k].result.err.code \in ErrorCode
                 /\ Truthy(fetches[k].result.err.message)
            ELSE fetches[k].result.kind = "data"

\* a call of either transport ended on each failure: a timeout, an
\* unparseable body
C35_Witness ==
  /\ fetches[1].pc = "done" /\ fetches[1].api = "request"
  /\ fetches[1].raw.kind = "abort" /\ fetches[1].result.err.statusCode = 504
  /\ fetches[2].pc = "done" /\ fetches[2].api = "post"
  /\ fetches[2].raw.kind = "response" /\ ~fetches[2].raw.parseable
  /\ fetches[2].result.kind = "AgonError"
  /\ fetches[1].timer = "cleared" /\ fetches[2].timer = "cleared"

\* ------------------------------------------------------------------ C36
\* the calls that ended with a revoked key
Revoked(k) ==
  fetches[k].api = "revokeKey" /\ fetches[k].pc = "done" /\ fetches[k].result.kind = "void"

\* C36 as stated: after any sequence of register, setApiKey, rotateKey and
\* revokeKey the key requireAuth looks at and the key the transport attaches
\* are the same, and a call started after a revokeKey does not carry the key
\* that revokeKey revoked.
C36_ClientAndTransportKeyAgree ==
  /\ cl.apiKey = cl.http.apiKey
  /\ \A k \in Call : \A j \in Call :
       (Revoked(k) /\ j > k /\ fetches[j].log # <<>>)
         => Get(fetches[j].log[1].headers, CONSUMER_KEY)
              # Get(fetches[k].log[1].headers, CONSUMER_KEY)

Stored(c) ==
  [apiKey |-> c.apiKey, httpKey |-> c.http.apiKey,
   accountId |-> c.accountId, depositAddress |-> c.depositAddress]

\* C38: no step of a fetch call, whether it goes on, returns a response or
\* raises an error, changes the API key, the account id or the deposit
\* address the client stores.
C38_FetchLeavesClientState ==
  [][(\E k \in Call : fetches'[k].api = "fetch" /\ fetches'[k] # fetches[k])
       => Stored(cl') = Stored(cl)]_vars

\* a fetch call went through token, dispatch and both POST /proxy and ended
\* in an error, on a client whose key was set
C38_Witness ==
  \E k \in Call :
    /\ fetches[k].api = "fetch" /\ fetches[k].pc = "done"
    /\ fetches[k].result.kind = "AgonError"
    /\ Cardinality(SentOps(k, "proxy")) = 2
    /\ Truthy(cl.apiKey) /\ cl.apiKey = cl.http.apiKey

\* ------------------------------------------------------------------ C39
\* the positions in the log of request r at which something happened
At(r, op) == {i \in 1..Len(m[r].log) : m[r].log[i].op = op}

\* C39: for every inbound request the handler starts at most once, only
\* after the authorize call, which is the first thing sent, resolved with an
\* approval; every consume or release comes after the start of the handler
\* and after its completion: after it returned or threw, or, in Express,
\* after it ended the response (one call per invocation of res.end).
C39_StepsAreOrdered ==
  \A r \in Req :
    /\ Cardinality(At(r, "handler")) <= 1
    /\ m[r].pc = "authorizing" => At(r, "handler") = {} /\ SettleCalls(r) = {}
    /\ At(r, "handler") # {} =>
         /\ At(r, "authorize") = {1}
         /\ m[r].authResult.status \notin {"none", "denied", "threw"}
    /\ \A s \in SettleCalls(r) :
         /\ \E h \in At(r, "handler") : h < s
         /\ IF m[r].entry = "agonMiddleware"
            THEN m[r].ends >= 1 /\ Cardinality(SettleCalls(r)) <= m[r].ends
            ELSE \E e \in At(r, "handler_end") : e < s

\* withAgon: authorize, then the handler, which threw, then the release
C39_Witness ==
  \E r \in Req :
    /\ m[r].entry = "withAgon" /\ m[r].pc = "done" /\ m[r].handler = "threw"
    /\ [i \in 1..Len(m[r].log) |-> m[r].log[i].op]
         = <<"authorize", "handler", "handler_end", "release">>

\* ------------------------------------------------------------------ C40
\* C40: when every backend call ends and the handler returns or throws, a
\* request that entered withAgon does not stay priced, authorizing, in the
\* handler or settling forever: it comes to the point where withAgon has
\* returned a response, and from then on that response is the only one.
C40_EveryRequestIsAnswered ==
  /\ \A r \in Req :
       (m[r].pc # "idle") ~> (m[r].pc = "done" /\ m[r].resp.kind \in {"json", "handler"})
  /\ [][\A r \in Req : m[r].pc = "done" => m'[r] = m[r]]_vars

\* a request went the whole way: authorize, handler, a consume that timed
\* out, and the handler's response
C40_Witness ==
  \E r \in Req :
    /\ m[r].entry = "withAgon" /\ m[r].pc = "done"
    /\ Len(m[r].log) = 4 /\ m[r].log[4].op = "consume"
    /\ m[r].settled = "rejected"
    /\ m[r].resp.kind = "handler"

====
